---------------------------- MODULE Spec2Model ----------------------------
(***************************************************************************)
(* Model of the ingestion-and-reconciliation engine of the Minos CSL       *)
(* Utility (src/CSL_Utility.py, v0.7): ContestRecord and                   *)
(* ContestLogManager.                                                      *)
(*                                                                         *)
(* A Python str is a sequence of characters, so that upper(),              *)
(* strip(), startswith() and the csv dialect are computed character by     *)
(* character.  A character is a one-character string when its code point   *)
(* is between U+0001 and U+00FF and it is not the grave accent; any other  *)
(* character is named by its code point ("U+0178").  A text file is the    *)
(* sequence of its lines as readlines() returns them: every line ends with *)
(* "\n", except the last when the file does not end with a line break.     *)
(***************************************************************************)
EXTENDS Integers, Sequences, FiniteSets, TLC

(***************************************************************************)
(* Bounds                                                                  *)
(***************************************************************************)
MaxRecords == 2      \* the store is not grown beyond this many records
MaxListLen == 4      \* longest field list handed to from_list
MaxEdiLines == 4     \* longest .edi file, in lines
MaxAdifChunks == 3   \* most pieces an .adi file is made of
MaxObservers == 2    \* add_observer is not called more often than this

(***************************************************************************)
(* str helpers                                                             *)
(***************************************************************************)
\* A character is a one-character string; U+0000, the grave accent U+0060
\* and the characters beyond U+00FF, which a TLA+ string does not hold, are
\* written by their code point, as in "U+0178".  The tables of Unicode below
\* are texts in which a code point is five hexadecimal digits.

\* the characters from U+0001 to U+00FF, and the code point of each
Latin1 ==
    "\t\n\f\r !\"#$%&'()*+,-./0123456789:;<=>?@"
    \o "ABCDEFGHIJKLMNOPQRSTUVWXYZ[\\]^_abcdefghijklmnopqrstuvwxyz{|}~"
    \o " ¡¢£¤¥¦§¨©ª«¬­®¯°±²³´µ¶·¸¹º»¼½¾¿ÀÁ"
    \o "ÂÃÄÅÆÇÈÉÊËÌÍÎÏÐÑÒÓÔÕÖ×ØÙÚÛÜÝÞßàáâãäåæçèéêëìíîïðñòóôõö÷øùúûüýþÿ"

Latin1Codes ==
    "0000100002000030000400005000060000700008000090000A0000B0000C0000D0000E0000F000100001100012000130001400015000160001700018000190001A0001B0001C0001D0001E0001F000200002100022000230002400025000260002700028000290002A0002B0002C0002D0002E0002F000300003100032000330003400035000360003700038000390003A0003B0003C0003D0003E0003F000400004100042000430004400045000460004700048000490004A0004B0004C0004D0004E0004F000500005100052000530005400055000560005700058000590005A0005B0005C0005D0005E0005F0006100062000630006400065000660006700068000690006A0006B0006C0006D0006E0006F000700007100072000730007400075000760007700078000790007A0007B0007C0007D0007E0007F000800008100082000830008400085000860008700088000890008A0008B0008C0008D0008E0008F000900009100092000930009400095000960009700098000990009A0009B0009C0009D0009E0009F000A0000A1000A2000A3000A4000A5000A6000A7000A8000A9000AA000AB000AC000AD000AE000AF000B0000B1000B2000B3000B4000B5000B6000B7000B8000B9000BA000BB000BC000BD000BE000BF000C0000C1000C2000C3000C4000C5000C6000C7000C8000C9"
    \o "000CA000CB000CC000CD000CE000CF000D0000D1000D2000D3000D4000D5000D6000D7000D8000D9000DA000DB000DC000DD000DE000DF000E0000E1000E2000E3000E4000E5000E6000E7000E8000E9000EA000EB000EC000ED000EE000EF000F0000F1000F2000F3000F4000F5000F6000F7000F8000F9000FA000FB000FC000FD000FE000FF"

\* the characters of ASCII
Ascii ==
    {SubSeq(Latin1, i, i) : i \in 1..126} \cup {"U+0000", "U+0060"}

\* the characters str.strip() removes: those for which str.isspace() holds
Whitespace ==
    LET narrow == "\t\n\f\r  "
        wide   == "U+1680U+2000U+2001U+2002U+2003U+2004U+2005U+2006U+2007U+2008U+2009U+200AU+2028U+2029U+202FU+205FU+3000"
    IN  {SubSeq(narrow, i, i) : i \in 1..Len(narrow)}
            \cup {SubSeq(wide, 6 * i - 5, 6 * i) : i \in 1..(Len(wide) \div 6)}

\* the characters int() allows around a number
IntWhitespace == Whitespace \ {"", "", "", ""}

\* str.upper() of the characters beyond ASCII that it changes: the character,
\* then the (up to three) characters it becomes
UpperText ==
    "000B50039C----------000DF0005300053-----000E0000C0----------000E1000C1----------000E2000C2----------000E3000C3----------000E4000C4----------000E5000C5----------000E6000C6----------000E7000C7----------000E8000C8----------000E9000C9----------000EA000CA----------000EB000CB----------000EC000CC----------000ED000CD----------000EE000CE----------000EF000CF----------000F0000D0----------000F1000D1----------000F2000D2----------000F3000D3----------000F4000D4----------000F5000D5----------000F6000D6----------000F8000D8----------000F9000D9----------000FA000DA----------000FB000DB----------000FC000DC----------000FD000DD----------000FE000DE----------000FF00178----------0010100100----------0010300102----------0010500104----------0010700106----------0010900108----------0010B0010A----------0010D0010C----------0010F0010E----------0011100110----------0011300112----------0011500114----------0011700116----------0011900118----------0011B0011A----------0011D0011C----------0011F0011E----------0012100120----------"
    \o "0012300122----------0012500124----------0012700126----------0012900128----------0012B0012A----------0012D0012C----------0012F0012E----------0013100049----------0013300132----------0013500134----------0013700136----------0013A00139----------0013C0013B----------0013E0013D----------001400013F----------0014200141----------0014400143----------0014600145----------0014800147----------00149002BC0004E-----0014B0014A----------0014D0014C----------0014F0014E----------0015100150----------0015300152----------0015500154----------0015700156----------0015900158----------0015B0015A----------0015D0015C----------0015F0015E----------0016100160----------0016300162----------0016500164----------0016700166----------0016900168----------0016B0016A----------0016D0016C----------0016F0016E----------0017100170----------0017300172----------0017500174----------0017700176----------0017A00179----------0017C0017B----------0017E0017D----------0017F00053----------0018000243----------0018300182----------0018500184----------"
    \o "0018800187----------0018C0018B----------0019200191----------00195001F6----------0019900198----------0019A0023D----------0019E00220----------001A1001A0----------001A3001A2----------001A5001A4----------001A8001A7----------001AD001AC----------001B0001AF----------001B4001B3----------001B6001B5----------001B9001B8----------001BD001BC----------001BF001F7----------001C5001C4----------001C6001C4----------001C8001C7----------001C9001C7----------001CB001CA----------001CC001CA----------001CE001CD----------001D0001CF----------001D2001D1----------001D4001D3----------001D6001D5----------001D8001D7----------001DA001D9----------001DC001DB----------001DD0018E----------001DF001DE----------001E1001E0----------001E3001E2----------001E5001E4----------001E7001E6----------001E9001E8----------001EB001EA----------001ED001EC----------001EF001EE----------001F00004A0030C-----001F2001F1----------001F3001F1----------001F5001F4----------001F9001F8----------001FB001FA----------001FD001FC----------001FF001FE----------"
    \o "0020100200----------0020300202----------0020500204----------0020700206----------0020900208----------0020B0020A----------0020D0020C----------0020F0020E----------0021100210----------0021300212----------0021500214----------0021700216----------0021900218----------0021B0021A----------0021D0021C----------0021F0021E----------0022300222----------0022500224----------0022700226----------0022900228----------0022B0022A----------0022D0022C----------0022F0022E----------0023100230----------0023300232----------0023C0023B----------0023F02C7E----------0024002C7F----------0024200241----------0024700246----------0024900248----------0024B0024A----------0024D0024C----------0024F0024E----------0025002C6F----------0025102C6D----------0025202C70----------0025300181----------0025400186----------0025600189----------002570018A----------002590018F----------0025B00190----------0025C0A7AB----------0026000193----------002610A7AC----------0026300194----------002650A78D----------002660A7AA----------0026800197----------"
    \o "0026900196----------0026A0A7AE----------0026B02C62----------0026C0A7AD----------0026F0019C----------0027102C6E----------002720019D----------002750019F----------0027D02C64----------00280001A6----------002820A7C5----------00283001A9----------002870A7B1----------00288001AE----------0028900244----------0028A001B1----------0028B001B2----------0028C00245----------00292001B7----------0029D0A7B2----------0029E0A7B0----------0034500399----------0037100370----------0037300372----------0037700376----------0037B003FD----------0037C003FE----------0037D003FF----------00390003990030800301003AC00386----------003AD00388----------003AE00389----------003AF0038A----------003B0003A50030800301003B100391----------003B200392----------003B300393----------003B400394----------003B500395----------003B600396----------003B700397----------003B800398----------003B900399----------003BA0039A----------003BB0039B----------003BC0039C----------003BD0039D----------003BE0039E----------003BF0039F----------003C0003A0----------"
    \o "003C1003A1----------003C2003A3----------003C3003A3----------003C4003A4----------003C5003A5----------003C6003A6----------003C7003A7----------003C8003A8----------003C9003A9----------003CA003AA----------003CB003AB----------003CC0038C----------003CD0038E----------003CE0038F----------003D000392----------003D100398----------003D5003A6----------003D6003A0----------003D7003CF----------003D9003D8----------003DB003DA----------003DD003DC----------003DF003DE----------003E1003E0----------003E3003E2----------003E5003E4----------003E7003E6----------003E9003E8----------003EB003EA----------003ED003EC----------003EF003EE----------003F00039A----------003F1003A1----------003F2003F9----------003F30037F----------003F500395----------003F8003F7----------003FB003FA----------0043000410----------0043100411----------0043200412----------0043300413----------0043400414----------0043500415----------0043600416----------0043700417----------0043800418----------0043900419----------0043A0041A----------0043B0041B----------"
    \o "0043C0041C----------0043D0041D----------0043E0041E----------0043F0041F----------0044000420----------0044100421----------0044200422----------0044300423----------0044400424----------0044500425----------0044600426----------0044700427----------0044800428----------0044900429----------0044A0042A----------0044B0042B----------0044C0042C----------0044D0042D----------0044E0042E----------0044F0042F----------0045000400----------0045100401----------0045200402----------0045300403----------0045400404----------0045500405----------0045600406----------0045700407----------0045800408----------0045900409----------0045A0040A----------0045B0040B----------0045C0040C----------0045D0040D----------0045E0040E----------0045F0040F----------0046100460----------0046300462----------0046500464----------0046700466----------0046900468----------0046B0046A----------0046D0046C----------0046F0046E----------0047100470----------0047300472----------0047500474----------0047700476----------0047900478----------0047B0047A----------"
    \o "0047D0047C----------0047F0047E----------0048100480----------0048B0048A----------0048D0048C----------0048F0048E----------0049100490----------0049300492----------0049500494----------0049700496----------0049900498----------0049B0049A----------0049D0049C----------0049F0049E----------004A1004A0----------004A3004A2----------004A5004A4----------004A7004A6----------004A9004A8----------004AB004AA----------004AD004AC----------004AF004AE----------004B1004B0----------004B3004B2----------004B5004B4----------004B7004B6----------004B9004B8----------004BB004BA----------004BD004BC----------004BF004BE----------004C2004C1----------004C4004C3----------004C6004C5----------004C8004C7----------004CA004C9----------004CC004CB----------004CE004CD----------004CF004C0----------004D1004D0----------004D3004D2----------004D5004D4----------004D7004D6----------004D9004D8----------004DB004DA----------004DD004DC----------004DF004DE----------004E1004E0----------004E3004E2----------004E5004E4----------004E7004E6----------"
    \o "004E9004E8----------004EB004EA----------004ED004EC----------004EF004EE----------004F1004F0----------004F3004F2----------004F5004F4----------004F7004F6----------004F9004F8----------004FB004FA----------004FD004FC----------004FF004FE----------0050100500----------0050300502----------0050500504----------0050700506----------0050900508----------0050B0050A----------0050D0050C----------0050F0050E----------0051100510----------0051300512----------0051500514----------0051700516----------0051900518----------0051B0051A----------0051D0051C----------0051F0051E----------0052100520----------0052300522----------0052500524----------0052700526----------0052900528----------0052B0052A----------0052D0052C----------0052F0052E----------0056100531----------0056200532----------0056300533----------0056400534----------0056500535----------0056600536----------0056700537----------0056800538----------0056900539----------0056A0053A----------0056B0053B----------0056C0053C----------0056D0053D----------0056E0053E----------"
    \o "0056F0053F----------0057000540----------0057100541----------0057200542----------0057300543----------0057400544----------0057500545----------0057600546----------0057700547----------0057800548----------0057900549----------0057A0054A----------0057B0054B----------0057C0054C----------0057D0054D----------0057E0054E----------0057F0054F----------0058000550----------0058100551----------0058200552----------0058300553----------0058400554----------0058500555----------0058600556----------005870053500552-----010D001C90----------010D101C91----------010D201C92----------010D301C93----------010D401C94----------010D501C95----------010D601C96----------010D701C97----------010D801C98----------010D901C99----------010DA01C9A----------010DB01C9B----------010DC01C9C----------010DD01C9D----------010DE01C9E----------010DF01C9F----------010E001CA0----------010E101CA1----------010E201CA2----------010E301CA3----------010E401CA4----------010E501CA5----------010E601CA6----------010E701CA7----------010E801CA8----------"
    \o "010E901CA9----------010EA01CAA----------010EB01CAB----------010EC01CAC----------010ED01CAD----------010EE01CAE----------010EF01CAF----------010F001CB0----------010F101CB1----------010F201CB2----------010F301CB3----------010F401CB4----------010F501CB5----------010F601CB6----------010F701CB7----------010F801CB8----------010F901CB9----------010FA01CBA----------010FD01CBD----------010FE01CBE----------010FF01CBF----------013F8013F0----------013F9013F1----------013FA013F2----------013FB013F3----------013FC013F4----------013FD013F5----------01C8000412----------01C8100414----------01C820041E----------01C8300421----------01C8400422----------01C8500422----------01C860042A----------01C8700462----------01C880A64A----------01D790A77D----------01D7D02C63----------01D8E0A7C6----------01E0101E00----------01E0301E02----------01E0501E04----------01E0701E06----------01E0901E08----------01E0B01E0A----------01E0D01E0C----------01E0F01E0E----------01E1101E10----------01E1301E12----------01E1501E14----------"
    \o "01E1701E16----------01E1901E18----------01E1B01E1A----------01E1D01E1C----------01E1F01E1E----------01E2101E20----------01E2301E22----------01E2501E24----------01E2701E26----------01E2901E28----------01E2B01E2A----------01E2D01E2C----------01E2F01E2E----------01E3101E30----------01E3301E32----------01E3501E34----------01E3701E36----------01E3901E38----------01E3B01E3A----------01E3D01E3C----------01E3F01E3E----------01E4101E40----------01E4301E42----------01E4501E44----------01E4701E46----------01E4901E48----------01E4B01E4A----------01E4D01E4C----------01E4F01E4E----------01E5101E50----------01E5301E52----------01E5501E54----------01E5701E56----------01E5901E58----------01E5B01E5A----------01E5D01E5C----------01E5F01E5E----------01E6101E60----------01E6301E62----------01E6501E64----------01E6701E66----------01E6901E68----------01E6B01E6A----------01E6D01E6C----------01E6F01E6E----------01E7101E70----------01E7301E72----------01E7501E74----------01E7701E76----------01E7901E78----------"
    \o "01E7B01E7A----------01E7D01E7C----------01E7F01E7E----------01E8101E80----------01E8301E82----------01E8501E84----------01E8701E86----------01E8901E88----------01E8B01E8A----------01E8D01E8C----------01E8F01E8E----------01E9101E90----------01E9301E92----------01E9501E94----------01E960004800331-----01E970005400308-----01E98000570030A-----01E99000590030A-----01E9A00041002BE-----01E9B01E60----------01EA101EA0----------01EA301EA2----------01EA501EA4----------01EA701EA6----------01EA901EA8----------01EAB01EAA----------01EAD01EAC----------01EAF01EAE----------01EB101EB0----------01EB301EB2----------01EB501EB4----------01EB701EB6----------01EB901EB8----------01EBB01EBA----------01EBD01EBC----------01EBF01EBE----------01EC101EC0----------01EC301EC2----------01EC501EC4----------01EC701EC6----------01EC901EC8----------01ECB01ECA----------01ECD01ECC----------01ECF01ECE----------01ED101ED0----------01ED301ED2----------01ED501ED4----------01ED701ED6----------01ED901ED8----------01EDB01EDA----------"
    \o "01EDD01EDC----------01EDF01EDE----------01EE101EE0----------01EE301EE2----------01EE501EE4----------01EE701EE6----------01EE901EE8----------01EEB01EEA----------01EED01EEC----------01EEF01EEE----------01EF101EF0----------01EF301EF2----------01EF501EF4----------01EF701EF6----------01EF901EF8----------01EFB01EFA----------01EFD01EFC----------01EFF01EFE----------01F0001F08----------01F0101F09----------01F0201F0A----------01F0301F0B----------01F0401F0C----------01F0501F0D----------01F0601F0E----------01F0701F0F----------01F1001F18----------01F1101F19----------01F1201F1A----------01F1301F1B----------01F1401F1C----------01F1501F1D----------01F2001F28----------01F2101F29----------01F2201F2A----------01F2301F2B----------01F2401F2C----------01F2501F2D----------01F2601F2E----------01F2701F2F----------01F3001F38----------01F3101F39----------01F3201F3A----------01F3301F3B----------01F3401F3C----------01F3501F3D----------01F3601F3E----------01F3701F3F----------01F4001F48----------01F4101F49----------"
    \o "01F4201F4A----------01F4301F4B----------01F4401F4C----------01F4501F4D----------01F50003A500313-----01F5101F59----------01F52003A5003130030001F5301F5B----------01F54003A5003130030101F5501F5D----------01F56003A5003130034201F5701F5F----------01F6001F68----------01F6101F69----------01F6201F6A----------01F6301F6B----------01F6401F6C----------01F6501F6D----------01F6601F6E----------01F6701F6F----------01F7001FBA----------01F7101FBB----------01F7201FC8----------01F7301FC9----------01F7401FCA----------01F7501FCB----------01F7601FDA----------01F7701FDB----------01F7801FF8----------01F7901FF9----------01F7A01FEA----------01F7B01FEB----------01F7C01FFA----------01F7D01FFB----------01F8001F0800399-----01F8101F0900399-----01F8201F0A00399-----01F8301F0B00399-----01F8401F0C00399-----01F8501F0D00399-----01F8601F0E00399-----01F8701F0F00399-----01F8801F0800399-----01F8901F0900399-----01F8A01F0A00399-----01F8B01F0B00399-----01F8C01F0C00399-----01F8D01F0D00399-----01F8E01F0E00399-----01F8F01F0F00399-----"
    \o "01F9001F2800399-----01F9101F2900399-----01F9201F2A00399-----01F9301F2B00399-----01F9401F2C00399-----01F9501F2D00399-----01F9601F2E00399-----01F9701F2F00399-----01F9801F2800399-----01F9901F2900399-----01F9A01F2A00399-----01F9B01F2B00399-----01F9C01F2C00399-----01F9D01F2D00399-----01F9E01F2E00399-----01F9F01F2F00399-----01FA001F6800399-----01FA101F6900399-----01FA201F6A00399-----01FA301F6B00399-----01FA401F6C00399-----01FA501F6D00399-----01FA601F6E00399-----01FA701F6F00399-----01FA801F6800399-----01FA901F6900399-----01FAA01F6A00399-----01FAB01F6B00399-----01FAC01F6C00399-----01FAD01F6D00399-----01FAE01F6E00399-----01FAF01F6F00399-----01FB001FB8----------01FB101FB9----------01FB201FBA00399-----01FB30039100399-----01FB40038600399-----01FB60039100342-----01FB700391003420039901FBC0039100399-----01FBE00399----------01FC201FCA00399-----01FC30039700399-----01FC40038900399-----01FC60039700342-----01FC700397003420039901FCC0039700399-----01FD001FD8----------01FD101FD9----------01FD2003990030800300"
    \o "01FD300399003080030101FD60039900342-----01FD700399003080034201FE001FE8----------01FE101FE9----------01FE2003A5003080030001FE3003A5003080030101FE4003A100313-----01FE501FEC----------01FE6003A500342-----01FE7003A5003080034201FF201FFA00399-----01FF3003A900399-----01FF40038F00399-----01FF6003A900342-----01FF7003A9003420039901FFC003A900399-----0214E02132----------0217002160----------0217102161----------0217202162----------0217302163----------0217402164----------0217502165----------0217602166----------0217702167----------0217802168----------0217902169----------0217A0216A----------0217B0216B----------0217C0216C----------0217D0216D----------0217E0216E----------0217F0216F----------0218402183----------024D0024B6----------024D1024B7----------024D2024B8----------024D3024B9----------024D4024BA----------024D5024BB----------024D6024BC----------024D7024BD----------024D8024BE----------024D9024BF----------024DA024C0----------024DB024C1----------024DC024C2----------024DD024C3----------024DE024C4----------"
    \o "024DF024C5----------024E0024C6----------024E1024C7----------024E2024C8----------024E3024C9----------024E4024CA----------024E5024CB----------024E6024CC----------024E7024CD----------024E8024CE----------024E9024CF----------02C3002C00----------02C3102C01----------02C3202C02----------02C3302C03----------02C3402C04----------02C3502C05----------02C3602C06----------02C3702C07----------02C3802C08----------02C3902C09----------02C3A02C0A----------02C3B02C0B----------02C3C02C0C----------02C3D02C0D----------02C3E02C0E----------02C3F02C0F----------02C4002C10----------02C4102C11----------02C4202C12----------02C4302C13----------02C4402C14----------02C4502C15----------02C4602C16----------02C4702C17----------02C4802C18----------02C4902C19----------02C4A02C1A----------02C4B02C1B----------02C4C02C1C----------02C4D02C1D----------02C4E02C1E----------02C4F02C1F----------02C5002C20----------02C5102C21----------02C5202C22----------02C5302C23----------02C5402C24----------02C5502C25----------02C5602C26----------"
    \o "02C5702C27----------02C5802C28----------02C5902C29----------02C5A02C2A----------02C5B02C2B----------02C5C02C2C----------02C5D02C2D----------02C5E02C2E----------02C5F02C2F----------02C6102C60----------02C650023A----------02C660023E----------02C6802C67----------02C6A02C69----------02C6C02C6B----------02C7302C72----------02C7602C75----------02C8102C80----------02C8302C82----------02C8502C84----------02C8702C86----------02C8902C88----------02C8B02C8A----------02C8D02C8C----------02C8F02C8E----------02C9102C90----------02C9302C92----------02C9502C94----------02C9702C96----------02C9902C98----------02C9B02C9A----------02C9D02C9C----------02C9F02C9E----------02CA102CA0----------02CA302CA2----------02CA502CA4----------02CA702CA6----------02CA902CA8----------02CAB02CAA----------02CAD02CAC----------02CAF02CAE----------02CB102CB0----------02CB302CB2----------02CB502CB4----------02CB702CB6----------02CB902CB8----------02CBB02CBA----------02CBD02CBC----------02CBF02CBE----------02CC102CC0----------"
    \o "02CC302CC2----------02CC502CC4----------02CC702CC6----------02CC902CC8----------02CCB02CCA----------02CCD02CCC----------02CCF02CCE----------02CD102CD0----------02CD302CD2----------02CD502CD4----------02CD702CD6----------02CD902CD8----------02CDB02CDA----------02CDD02CDC----------02CDF02CDE----------02CE102CE0----------02CE302CE2----------02CEC02CEB----------02CEE02CED----------02CF302CF2----------02D00010A0----------02D01010A1----------02D02010A2----------02D03010A3----------02D04010A4----------02D05010A5----------02D06010A6----------02D07010A7----------02D08010A8----------02D09010A9----------02D0A010AA----------02D0B010AB----------02D0C010AC----------02D0D010AD----------02D0E010AE----------02D0F010AF----------02D10010B0----------02D11010B1----------02D12010B2----------02D13010B3----------02D14010B4----------02D15010B5----------02D16010B6----------02D17010B7----------02D18010B8----------02D19010B9----------02D1A010BA----------02D1B010BB----------02D1C010BC----------02D1D010BD----------"
    \o "02D1E010BE----------02D1F010BF----------02D20010C0----------02D21010C1----------02D22010C2----------02D23010C3----------02D24010C4----------02D25010C5----------02D27010C7----------02D2D010CD----------0A6410A640----------0A6430A642----------0A6450A644----------0A6470A646----------0A6490A648----------0A64B0A64A----------0A64D0A64C----------0A64F0A64E----------0A6510A650----------0A6530A652----------0A6550A654----------0A6570A656----------0A6590A658----------0A65B0A65A----------0A65D0A65C----------0A65F0A65E----------0A6610A660----------0A6630A662----------0A6650A664----------0A6670A666----------0A6690A668----------0A66B0A66A----------0A66D0A66C----------0A6810A680----------0A6830A682----------0A6850A684----------0A6870A686----------0A6890A688----------0A68B0A68A----------0A68D0A68C----------0A68F0A68E----------0A6910A690----------0A6930A692----------0A6950A694----------0A6970A696----------0A6990A698----------0A69B0A69A----------0A7230A722----------0A7250A724----------0A7270A726----------"
    \o "0A7290A728----------0A72B0A72A----------0A72D0A72C----------0A72F0A72E----------0A7330A732----------0A7350A734----------0A7370A736----------0A7390A738----------0A73B0A73A----------0A73D0A73C----------0A73F0A73E----------0A7410A740----------0A7430A742----------0A7450A744----------0A7470A746----------0A7490A748----------0A74B0A74A----------0A74D0A74C----------0A74F0A74E----------0A7510A750----------0A7530A752----------0A7550A754----------0A7570A756----------0A7590A758----------0A75B0A75A----------0A75D0A75C----------0A75F0A75E----------0A7610A760----------0A7630A762----------0A7650A764----------0A7670A766----------0A7690A768----------0A76B0A76A----------0A76D0A76C----------0A76F0A76E----------0A77A0A779----------0A77C0A77B----------0A77F0A77E----------0A7810A780----------0A7830A782----------0A7850A784----------0A7870A786----------0A78C0A78B----------0A7910A790----------0A7930A792----------0A7940A7C4----------0A7970A796----------0A7990A798----------0A79B0A79A----------0A79D0A79C----------"
    \o "0A79F0A79E----------0A7A10A7A0----------0A7A30A7A2----------0A7A50A7A4----------0A7A70A7A6----------0A7A90A7A8----------0A7B50A7B4----------0A7B70A7B6----------0A7B90A7B8----------0A7BB0A7BA----------0A7BD0A7BC----------0A7BF0A7BE----------0A7C10A7C0----------0A7C30A7C2----------0A7C80A7C7----------0A7CA0A7C9----------0A7D10A7D0----------0A7D70A7D6----------0A7D90A7D8----------0A7F60A7F5----------0AB530A7B3----------0AB70013A0----------0AB71013A1----------0AB72013A2----------0AB73013A3----------0AB74013A4----------0AB75013A5----------0AB76013A6----------0AB77013A7----------0AB78013A8----------0AB79013A9----------0AB7A013AA----------0AB7B013AB----------0AB7C013AC----------0AB7D013AD----------0AB7E013AE----------0AB7F013AF----------0AB80013B0----------0AB81013B1----------0AB82013B2----------0AB83013B3----------0AB84013B4----------0AB85013B5----------0AB86013B6----------0AB87013B7----------0AB88013B8----------0AB89013B9----------0AB8A013BA----------0AB8B013BB----------0AB8C013BC----------"
    \o "0AB8D013BD----------0AB8E013BE----------0AB8F013BF----------0AB90013C0----------0AB91013C1----------0AB92013C2----------0AB93013C3----------0AB94013C4----------0AB95013C5----------0AB96013C6----------0AB97013C7----------0AB98013C8----------0AB99013C9----------0AB9A013CA----------0AB9B013CB----------0AB9C013CC----------0AB9D013CD----------0AB9E013CE----------0AB9F013CF----------0ABA0013D0----------0ABA1013D1----------0ABA2013D2----------0ABA3013D3----------0ABA4013D4----------0ABA5013D5----------0ABA6013D6----------0ABA7013D7----------0ABA8013D8----------0ABA9013D9----------0ABAA013DA----------0ABAB013DB----------0ABAC013DC----------0ABAD013DD----------0ABAE013DE----------0ABAF013DF----------0ABB0013E0----------0ABB1013E1----------0ABB2013E2----------0ABB3013E3----------0ABB4013E4----------0ABB5013E5----------0ABB6013E6----------0ABB7013E7----------0ABB8013E8----------0ABB9013E9----------0ABBA013EA----------0ABBB013EB----------0ABBC013EC----------0ABBD013ED----------0ABBE013EE----------"
    \o "0ABBF013EF----------0FB000004600046-----0FB010004600049-----0FB02000460004C-----0FB030004600046000490FB0400046000460004C0FB050005300054-----0FB060005300054-----0FB130054400546-----0FB140054400535-----0FB15005440053B-----0FB160054E00546-----0FB17005440053D-----0FF410FF21----------0FF420FF22----------0FF430FF23----------0FF440FF24----------0FF450FF25----------0FF460FF26----------0FF470FF27----------0FF480FF28----------0FF490FF29----------0FF4A0FF2A----------0FF4B0FF2B----------0FF4C0FF2C----------0FF4D0FF2D----------0FF4E0FF2E----------0FF4F0FF2F----------0FF500FF30----------0FF510FF31----------0FF520FF32----------0FF530FF33----------0FF540FF34----------0FF550FF35----------0FF560FF36----------0FF570FF37----------0FF580FF38----------0FF590FF39----------0FF5A0FF3A----------1042810400----------1042910401----------1042A10402----------1042B10403----------1042C10404----------1042D10405----------1042E10406----------1042F10407----------1043010408----------1043110409----------104321040A----------"
    \o "104331040B----------104341040C----------104351040D----------104361040E----------104371040F----------1043810410----------1043910411----------1043A10412----------1043B10413----------1043C10414----------1043D10415----------1043E10416----------1043F10417----------1044010418----------1044110419----------104421041A----------104431041B----------104441041C----------104451041D----------104461041E----------104471041F----------1044810420----------1044910421----------1044A10422----------1044B10423----------1044C10424----------1044D10425----------1044E10426----------1044F10427----------104D8104B0----------104D9104B1----------104DA104B2----------104DB104B3----------104DC104B4----------104DD104B5----------104DE104B6----------104DF104B7----------104E0104B8----------104E1104B9----------104E2104BA----------104E3104BB----------104E4104BC----------104E5104BD----------104E6104BE----------104E7104BF----------104E8104C0----------104E9104C1----------104EA104C2----------104EB104C3----------104EC104C4----------"
    \o "104ED104C5----------104EE104C6----------104EF104C7----------104F0104C8----------104F1104C9----------104F2104CA----------104F3104CB----------104F4104CC----------104F5104CD----------104F6104CE----------104F7104CF----------104F8104D0----------104F9104D1----------104FA104D2----------104FB104D3----------1059710570----------1059810571----------1059910572----------1059A10573----------1059B10574----------1059C10575----------1059D10576----------1059E10577----------1059F10578----------105A010579----------105A11057A----------105A31057C----------105A41057D----------105A51057E----------105A61057F----------105A710580----------105A810581----------105A910582----------105AA10583----------105AB10584----------105AC10585----------105AD10586----------105AE10587----------105AF10588----------105B010589----------105B11058A----------105B31058C----------105B41058D----------105B51058E----------105B61058F----------105B710590----------105B810591----------105B910592----------105BB10594----------105BC10595----------"
    \o "10CC010C80----------10CC110C81----------10CC210C82----------10CC310C83----------10CC410C84----------10CC510C85----------10CC610C86----------10CC710C87----------10CC810C88----------10CC910C89----------10CCA10C8A----------10CCB10C8B----------10CCC10C8C----------10CCD10C8D----------10CCE10C8E----------10CCF10C8F----------10CD010C90----------10CD110C91----------10CD210C92----------10CD310C93----------10CD410C94----------10CD510C95----------10CD610C96----------10CD710C97----------10CD810C98----------10CD910C99----------10CDA10C9A----------10CDB10C9B----------10CDC10C9C----------10CDD10C9D----------10CDE10C9E----------10CDF10C9F----------10CE010CA0----------10CE110CA1----------10CE210CA2----------10CE310CA3----------10CE410CA4----------10CE510CA5----------10CE610CA6----------10CE710CA7----------10CE810CA8----------10CE910CA9----------10CEA10CAA----------10CEB10CAB----------10CEC10CAC----------10CED10CAD----------10CEE10CAE----------10CEF10CAF----------10CF010CB0----------10CF110CB1----------"
    \o "10CF210CB2----------118C0118A0----------118C1118A1----------118C2118A2----------118C3118A3----------118C4118A4----------118C5118A5----------118C6118A6----------118C7118A7----------118C8118A8----------118C9118A9----------118CA118AA----------118CB118AB----------118CC118AC----------118CD118AD----------118CE118AE----------118CF118AF----------118D0118B0----------118D1118B1----------118D2118B2----------118D3118B3----------118D4118B4----------118D5118B5----------118D6118B6----------118D7118B7----------118D8118B8----------118D9118B9----------118DA118BA----------118DB118BB----------118DC118BC----------118DD118BD----------118DE118BE----------118DF118BF----------16E6016E40----------16E6116E41----------16E6216E42----------16E6316E43----------16E6416E44----------16E6516E45----------16E6616E46----------16E6716E47----------16E6816E48----------16E6916E49----------16E6A16E4A----------16E6B16E4B----------16E6C16E4C----------16E6D16E4D----------16E6E16E4E----------16E6F16E4F----------16E7016E50----------"
    \o "16E7116E51----------16E7216E52----------16E7316E53----------16E7416E54----------16E7516E55----------16E7616E56----------16E7716E57----------16E7816E58----------16E7916E59----------16E7A16E5A----------16E7B16E5B----------16E7C16E5C----------16E7D16E5D----------16E7E16E5E----------16E7F16E5F----------1E9221E900----------1E9231E901----------1E9241E902----------1E9251E903----------1E9261E904----------1E9271E905----------1E9281E906----------1E9291E907----------1E92A1E908----------1E92B1E909----------1E92C1E90A----------1E92D1E90B----------1E92E1E90C----------1E92F1E90D----------1E9301E90E----------1E9311E90F----------1E9321E910----------1E9331E911----------1E9341E912----------1E9351E913----------1E9361E914----------1E9371E915----------1E9381E916----------1E9391E917----------1E93A1E918----------1E93B1E919----------1E93C1E91A----------1E93D1E91B----------1E93E1E91C----------1E93F1E91D----------1E9401E91E----------1E9411E91F----------1E9421E920----------1E9431E921----------"

\* str.lower() of the characters beyond ASCII that it changes, capital sigma
\* apart: the character, then the (up to two) characters it becomes
LowerText ==
    "000C0000E0-----000C1000E1-----000C2000E2-----000C3000E3-----000C4000E4-----000C5000E5-----000C6000E6-----000C7000E7-----000C8000E8-----000C9000E9-----000CA000EA-----000CB000EB-----000CC000EC-----000CD000ED-----000CE000EE-----000CF000EF-----000D0000F0-----000D1000F1-----000D2000F2-----000D3000F3-----000D4000F4-----000D5000F5-----000D6000F6-----000D8000F8-----000D9000F9-----000DA000FA-----000DB000FB-----000DC000FC-----000DD000FD-----000DE000FE-----0010000101-----0010200103-----0010400105-----0010600107-----0010800109-----0010A0010B-----0010C0010D-----0010E0010F-----0011000111-----0011200113-----0011400115-----0011600117-----0011800119-----0011A0011B-----0011C0011D-----0011E0011F-----0012000121-----0012200123-----0012400125-----0012600127-----0012800129-----0012A0012B-----0012C0012D-----0012E0012F-----0013000069003070013200133-----0013400135-----0013600137-----001390013A-----0013B0013C-----0013D0013E-----0013F00140-----0014100142-----0014300144-----0014500146-----0014700148-----"
    \o "0014A0014B-----0014C0014D-----0014E0014F-----0015000151-----0015200153-----0015400155-----0015600157-----0015800159-----0015A0015B-----0015C0015D-----0015E0015F-----0016000161-----0016200163-----0016400165-----0016600167-----0016800169-----0016A0016B-----0016C0016D-----0016E0016F-----0017000171-----0017200173-----0017400175-----0017600177-----00178000FF-----001790017A-----0017B0017C-----0017D0017E-----0018100253-----0018200183-----0018400185-----0018600254-----0018700188-----0018900256-----0018A00257-----0018B0018C-----0018E001DD-----0018F00259-----001900025B-----0019100192-----0019300260-----0019400263-----0019600269-----0019700268-----0019800199-----0019C0026F-----0019D00272-----0019F00275-----001A0001A1-----001A2001A3-----001A4001A5-----001A600280-----001A7001A8-----001A900283-----001AC001AD-----001AE00288-----001AF001B0-----001B10028A-----001B20028B-----001B3001B4-----001B5001B6-----001B700292-----001B8001B9-----001BC001BD-----001C4001C6-----001C5001C6-----001C7001C9-----"
    \o "001C8001C9-----001CA001CC-----001CB001CC-----001CD001CE-----001CF001D0-----001D1001D2-----001D3001D4-----001D5001D6-----001D7001D8-----001D9001DA-----001DB001DC-----001DE001DF-----001E0001E1-----001E2001E3-----001E4001E5-----001E6001E7-----001E8001E9-----001EA001EB-----001EC001ED-----001EE001EF-----001F1001F3-----001F2001F3-----001F4001F5-----001F600195-----001F7001BF-----001F8001F9-----001FA001FB-----001FC001FD-----001FE001FF-----0020000201-----0020200203-----0020400205-----0020600207-----0020800209-----0020A0020B-----0020C0020D-----0020E0020F-----0021000211-----0021200213-----0021400215-----0021600217-----0021800219-----0021A0021B-----0021C0021D-----0021E0021F-----002200019E-----0022200223-----0022400225-----0022600227-----0022800229-----0022A0022B-----0022C0022D-----0022E0022F-----0023000231-----0023200233-----0023A02C65-----0023B0023C-----0023D0019A-----0023E02C66-----0024100242-----0024300180-----0024400289-----002450028C-----0024600247-----0024800249-----0024A0024B-----"
    \o "0024C0024D-----0024E0024F-----0037000371-----0037200373-----0037600377-----0037F003F3-----00386003AC-----00388003AD-----00389003AE-----0038A003AF-----0038C003CC-----0038E003CD-----0038F003CE-----00391003B1-----00392003B2-----00393003B3-----00394003B4-----00395003B5-----00396003B6-----00397003B7-----00398003B8-----00399003B9-----0039A003BA-----0039B003BB-----0039C003BC-----0039D003BD-----0039E003BE-----0039F003BF-----003A0003C0-----003A1003C1-----003A4003C4-----003A5003C5-----003A6003C6-----003A7003C7-----003A8003C8-----003A9003C9-----003AA003CA-----003AB003CB-----003CF003D7-----003D8003D9-----003DA003DB-----003DC003DD-----003DE003DF-----003E0003E1-----003E2003E3-----003E4003E5-----003E6003E7-----003E8003E9-----003EA003EB-----003EC003ED-----003EE003EF-----003F4003B8-----003F7003F8-----003F9003F2-----003FA003FB-----003FD0037B-----003FE0037C-----003FF0037D-----0040000450-----0040100451-----0040200452-----0040300453-----0040400454-----0040500455-----0040600456-----0040700457-----"
    \o "0040800458-----0040900459-----0040A0045A-----0040B0045B-----0040C0045C-----0040D0045D-----0040E0045E-----0040F0045F-----0041000430-----0041100431-----0041200432-----0041300433-----0041400434-----0041500435-----0041600436-----0041700437-----0041800438-----0041900439-----0041A0043A-----0041B0043B-----0041C0043C-----0041D0043D-----0041E0043E-----0041F0043F-----0042000440-----0042100441-----0042200442-----0042300443-----0042400444-----0042500445-----0042600446-----0042700447-----0042800448-----0042900449-----0042A0044A-----0042B0044B-----0042C0044C-----0042D0044D-----0042E0044E-----0042F0044F-----0046000461-----0046200463-----0046400465-----0046600467-----0046800469-----0046A0046B-----0046C0046D-----0046E0046F-----0047000471-----0047200473-----0047400475-----0047600477-----0047800479-----0047A0047B-----0047C0047D-----0047E0047F-----0048000481-----0048A0048B-----0048C0048D-----0048E0048F-----0049000491-----0049200493-----0049400495-----0049600497-----0049800499-----0049A0049B-----"
    \o "0049C0049D-----0049E0049F-----004A0004A1-----004A2004A3-----004A4004A5-----004A6004A7-----004A8004A9-----004AA004AB-----004AC004AD-----004AE004AF-----004B0004B1-----004B2004B3-----004B4004B5-----004B6004B7-----004B8004B9-----004BA004BB-----004BC004BD-----004BE004BF-----004C0004CF-----004C1004C2-----004C3004C4-----004C5004C6-----004C7004C8-----004C9004CA-----004CB004CC-----004CD004CE-----004D0004D1-----004D2004D3-----004D4004D5-----004D6004D7-----004D8004D9-----004DA004DB-----004DC004DD-----004DE004DF-----004E0004E1-----004E2004E3-----004E4004E5-----004E6004E7-----004E8004E9-----004EA004EB-----004EC004ED-----004EE004EF-----004F0004F1-----004F2004F3-----004F4004F5-----004F6004F7-----004F8004F9-----004FA004FB-----004FC004FD-----004FE004FF-----0050000501-----0050200503-----0050400505-----0050600507-----0050800509-----0050A0050B-----0050C0050D-----0050E0050F-----0051000511-----0051200513-----0051400515-----0051600517-----0051800519-----0051A0051B-----0051C0051D-----0051E0051F-----"
    \o "0052000521-----0052200523-----0052400525-----0052600527-----0052800529-----0052A0052B-----0052C0052D-----0052E0052F-----0053100561-----0053200562-----0053300563-----0053400564-----0053500565-----0053600566-----0053700567-----0053800568-----0053900569-----0053A0056A-----0053B0056B-----0053C0056C-----0053D0056D-----0053E0056E-----0053F0056F-----0054000570-----0054100571-----0054200572-----0054300573-----0054400574-----0054500575-----0054600576-----0054700577-----0054800578-----0054900579-----0054A0057A-----0054B0057B-----0054C0057C-----0054D0057D-----0054E0057E-----0054F0057F-----0055000580-----0055100581-----0055200582-----0055300583-----0055400584-----0055500585-----0055600586-----010A002D00-----010A102D01-----010A202D02-----010A302D03-----010A402D04-----010A502D05-----010A602D06-----010A702D07-----010A802D08-----010A902D09-----010AA02D0A-----010AB02D0B-----010AC02D0C-----010AD02D0D-----010AE02D0E-----010AF02D0F-----010B002D10-----010B102D11-----010B202D12-----010B302D13-----"
    \o "010B402D14-----010B502D15-----010B602D16-----010B702D17-----010B802D18-----010B902D19-----010BA02D1A-----010BB02D1B-----010BC02D1C-----010BD02D1D-----010BE02D1E-----010BF02D1F-----010C002D20-----010C102D21-----010C202D22-----010C302D23-----010C402D24-----010C502D25-----010C702D27-----010CD02D2D-----013A00AB70-----013A10AB71-----013A20AB72-----013A30AB73-----013A40AB74-----013A50AB75-----013A60AB76-----013A70AB77-----013A80AB78-----013A90AB79-----013AA0AB7A-----013AB0AB7B-----013AC0AB7C-----013AD0AB7D-----013AE0AB7E-----013AF0AB7F-----013B00AB80-----013B10AB81-----013B20AB82-----013B30AB83-----013B40AB84-----013B50AB85-----013B60AB86-----013B70AB87-----013B80AB88-----013B90AB89-----013BA0AB8A-----013BB0AB8B-----013BC0AB8C-----013BD0AB8D-----013BE0AB8E-----013BF0AB8F-----013C00AB90-----013C10AB91-----013C20AB92-----013C30AB93-----013C40AB94-----013C50AB95-----013C60AB96-----013C70AB97-----013C80AB98-----013C90AB99-----013CA0AB9A-----013CB0AB9B-----013CC0AB9C-----013CD0AB9D-----"
    \o "013CE0AB9E-----013CF0AB9F-----013D00ABA0-----013D10ABA1-----013D20ABA2-----013D30ABA3-----013D40ABA4-----013D50ABA5-----013D60ABA6-----013D70ABA7-----013D80ABA8-----013D90ABA9-----013DA0ABAA-----013DB0ABAB-----013DC0ABAC-----013DD0ABAD-----013DE0ABAE-----013DF0ABAF-----013E00ABB0-----013E10ABB1-----013E20ABB2-----013E30ABB3-----013E40ABB4-----013E50ABB5-----013E60ABB6-----013E70ABB7-----013E80ABB8-----013E90ABB9-----013EA0ABBA-----013EB0ABBB-----013EC0ABBC-----013ED0ABBD-----013EE0ABBE-----013EF0ABBF-----013F0013F8-----013F1013F9-----013F2013FA-----013F3013FB-----013F4013FC-----013F5013FD-----01C90010D0-----01C91010D1-----01C92010D2-----01C93010D3-----01C94010D4-----01C95010D5-----01C96010D6-----01C97010D7-----01C98010D8-----01C99010D9-----01C9A010DA-----01C9B010DB-----01C9C010DC-----01C9D010DD-----01C9E010DE-----01C9F010DF-----01CA0010E0-----01CA1010E1-----01CA2010E2-----01CA3010E3-----01CA4010E4-----01CA5010E5-----01CA6010E6-----01CA7010E7-----01CA8010E8-----01CA9010E9-----"
    \o "01CAA010EA-----01CAB010EB-----01CAC010EC-----01CAD010ED-----01CAE010EE-----01CAF010EF-----01CB0010F0-----01CB1010F1-----01CB2010F2-----01CB3010F3-----01CB4010F4-----01CB5010F5-----01CB6010F6-----01CB7010F7-----01CB8010F8-----01CB9010F9-----01CBA010FA-----01CBD010FD-----01CBE010FE-----01CBF010FF-----01E0001E01-----01E0201E03-----01E0401E05-----01E0601E07-----01E0801E09-----01E0A01E0B-----01E0C01E0D-----01E0E01E0F-----01E1001E11-----01E1201E13-----01E1401E15-----01E1601E17-----01E1801E19-----01E1A01E1B-----01E1C01E1D-----01E1E01E1F-----01E2001E21-----01E2201E23-----01E2401E25-----01E2601E27-----01E2801E29-----01E2A01E2B-----01E2C01E2D-----01E2E01E2F-----01E3001E31-----01E3201E33-----01E3401E35-----01E3601E37-----01E3801E39-----01E3A01E3B-----01E3C01E3D-----01E3E01E3F-----01E4001E41-----01E4201E43-----01E4401E45-----01E4601E47-----01E4801E49-----01E4A01E4B-----01E4C01E4D-----01E4E01E4F-----01E5001E51-----01E5201E53-----01E5401E55-----01E5601E57-----01E5801E59-----01E5A01E5B-----"
    \o "01E5C01E5D-----01E5E01E5F-----01E6001E61-----01E6201E63-----01E6401E65-----01E6601E67-----01E6801E69-----01E6A01E6B-----01E6C01E6D-----01E6E01E6F-----01E7001E71-----01E7201E73-----01E7401E75-----01E7601E77-----01E7801E79-----01E7A01E7B-----01E7C01E7D-----01E7E01E7F-----01E8001E81-----01E8201E83-----01E8401E85-----01E8601E87-----01E8801E89-----01E8A01E8B-----01E8C01E8D-----01E8E01E8F-----01E9001E91-----01E9201E93-----01E9401E95-----01E9E000DF-----01EA001EA1-----01EA201EA3-----01EA401EA5-----01EA601EA7-----01EA801EA9-----01EAA01EAB-----01EAC01EAD-----01EAE01EAF-----01EB001EB1-----01EB201EB3-----01EB401EB5-----01EB601EB7-----01EB801EB9-----01EBA01EBB-----01EBC01EBD-----01EBE01EBF-----01EC001EC1-----01EC201EC3-----01EC401EC5-----01EC601EC7-----01EC801EC9-----01ECA01ECB-----01ECC01ECD-----01ECE01ECF-----01ED001ED1-----01ED201ED3-----01ED401ED5-----01ED601ED7-----01ED801ED9-----01EDA01EDB-----01EDC01EDD-----01EDE01EDF-----01EE001EE1-----01EE201EE3-----01EE401EE5-----01EE601EE7-----"
    \o "01EE801EE9-----01EEA01EEB-----01EEC01EED-----01EEE01EEF-----01EF001EF1-----01EF201EF3-----01EF401EF5-----01EF601EF7-----01EF801EF9-----01EFA01EFB-----01EFC01EFD-----01EFE01EFF-----01F0801F00-----01F0901F01-----01F0A01F02-----01F0B01F03-----01F0C01F04-----01F0D01F05-----01F0E01F06-----01F0F01F07-----01F1801F10-----01F1901F11-----01F1A01F12-----01F1B01F13-----01F1C01F14-----01F1D01F15-----01F2801F20-----01F2901F21-----01F2A01F22-----01F2B01F23-----01F2C01F24-----01F2D01F25-----01F2E01F26-----01F2F01F27-----01F3801F30-----01F3901F31-----01F3A01F32-----01F3B01F33-----01F3C01F34-----01F3D01F35-----01F3E01F36-----01F3F01F37-----01F4801F40-----01F4901F41-----01F4A01F42-----01F4B01F43-----01F4C01F44-----01F4D01F45-----01F5901F51-----01F5B01F53-----01F5D01F55-----01F5F01F57-----01F6801F60-----01F6901F61-----01F6A01F62-----01F6B01F63-----01F6C01F64-----01F6D01F65-----01F6E01F66-----01F6F01F67-----01F8801F80-----01F8901F81-----01F8A01F82-----01F8B01F83-----01F8C01F84-----01F8D01F85-----"
    \o "01F8E01F86-----01F8F01F87-----01F9801F90-----01F9901F91-----01F9A01F92-----01F9B01F93-----01F9C01F94-----01F9D01F95-----01F9E01F96-----01F9F01F97-----01FA801FA0-----01FA901FA1-----01FAA01FA2-----01FAB01FA3-----01FAC01FA4-----01FAD01FA5-----01FAE01FA6-----01FAF01FA7-----01FB801FB0-----01FB901FB1-----01FBA01F70-----01FBB01F71-----01FBC01FB3-----01FC801F72-----01FC901F73-----01FCA01F74-----01FCB01F75-----01FCC01FC3-----01FD801FD0-----01FD901FD1-----01FDA01F76-----01FDB01F77-----01FE801FE0-----01FE901FE1-----01FEA01F7A-----01FEB01F7B-----01FEC01FE5-----01FF801F78-----01FF901F79-----01FFA01F7C-----01FFB01F7D-----01FFC01FF3-----02126003C9-----0212A0006B-----0212B000E5-----021320214E-----0216002170-----0216102171-----0216202172-----0216302173-----0216402174-----0216502175-----0216602176-----0216702177-----0216802178-----0216902179-----0216A0217A-----0216B0217B-----0216C0217C-----0216D0217D-----0216E0217E-----0216F0217F-----0218302184-----024B6024D0-----024B7024D1-----024B8024D2-----"
    \o "024B9024D3-----024BA024D4-----024BB024D5-----024BC024D6-----024BD024D7-----024BE024D8-----024BF024D9-----024C0024DA-----024C1024DB-----024C2024DC-----024C3024DD-----024C4024DE-----024C5024DF-----024C6024E0-----024C7024E1-----024C8024E2-----024C9024E3-----024CA024E4-----024CB024E5-----024CC024E6-----024CD024E7-----024CE024E8-----024CF024E9-----02C0002C30-----02C0102C31-----02C0202C32-----02C0302C33-----02C0402C34-----02C0502C35-----02C0602C36-----02C0702C37-----02C0802C38-----02C0902C39-----02C0A02C3A-----02C0B02C3B-----02C0C02C3C-----02C0D02C3D-----02C0E02C3E-----02C0F02C3F-----02C1002C40-----02C1102C41-----02C1202C42-----02C1302C43-----02C1402C44-----02C1502C45-----02C1602C46-----02C1702C47-----02C1802C48-----02C1902C49-----02C1A02C4A-----02C1B02C4B-----02C1C02C4C-----02C1D02C4D-----02C1E02C4E-----02C1F02C4F-----02C2002C50-----02C2102C51-----02C2202C52-----02C2302C53-----02C2402C54-----02C2502C55-----02C2602C56-----02C2702C57-----02C2802C58-----02C2902C59-----02C2A02C5A-----"
    \o "02C2B02C5B-----02C2C02C5C-----02C2D02C5D-----02C2E02C5E-----02C2F02C5F-----02C6002C61-----02C620026B-----02C6301D7D-----02C640027D-----02C6702C68-----02C6902C6A-----02C6B02C6C-----02C6D00251-----02C6E00271-----02C6F00250-----02C7000252-----02C7202C73-----02C7502C76-----02C7E0023F-----02C7F00240-----02C8002C81-----02C8202C83-----02C8402C85-----02C8602C87-----02C8802C89-----02C8A02C8B-----02C8C02C8D-----02C8E02C8F-----02C9002C91-----02C9202C93-----02C9402C95-----02C9602C97-----02C9802C99-----02C9A02C9B-----02C9C02C9D-----02C9E02C9F-----02CA002CA1-----02CA202CA3-----02CA402CA5-----02CA602CA7-----02CA802CA9-----02CAA02CAB-----02CAC02CAD-----02CAE02CAF-----02CB002CB1-----02CB202CB3-----02CB402CB5-----02CB602CB7-----02CB802CB9-----02CBA02CBB-----02CBC02CBD-----02CBE02CBF-----02CC002CC1-----02CC202CC3-----02CC402CC5-----02CC602CC7-----02CC802CC9-----02CCA02CCB-----02CCC02CCD-----02CCE02CCF-----02CD002CD1-----02CD202CD3-----02CD402CD5-----02CD602CD7-----02CD802CD9-----02CDA02CDB-----"
    \o "02CDC02CDD-----02CDE02CDF-----02CE002CE1-----02CE202CE3-----02CEB02CEC-----02CED02CEE-----02CF202CF3-----0A6400A641-----0A6420A643-----0A6440A645-----0A6460A647-----0A6480A649-----0A64A0A64B-----0A64C0A64D-----0A64E0A64F-----0A6500A651-----0A6520A653-----0A6540A655-----0A6560A657-----0A6580A659-----0A65A0A65B-----0A65C0A65D-----0A65E0A65F-----0A6600A661-----0A6620A663-----0A6640A665-----0A6660A667-----0A6680A669-----0A66A0A66B-----0A66C0A66D-----0A6800A681-----0A6820A683-----0A6840A685-----0A6860A687-----0A6880A689-----0A68A0A68B-----0A68C0A68D-----0A68E0A68F-----0A6900A691-----0A6920A693-----0A6940A695-----0A6960A697-----0A6980A699-----0A69A0A69B-----0A7220A723-----0A7240A725-----0A7260A727-----0A7280A729-----0A72A0A72B-----0A72C0A72D-----0A72E0A72F-----0A7320A733-----0A7340A735-----0A7360A737-----0A7380A739-----0A73A0A73B-----0A73C0A73D-----0A73E0A73F-----0A7400A741-----0A7420A743-----0A7440A745-----0A7460A747-----0A7480A749-----0A74A0A74B-----0A74C0A74D-----0A74E0A74F-----"
    \o "0A7500A751-----0A7520A753-----0A7540A755-----0A7560A757-----0A7580A759-----0A75A0A75B-----0A75C0A75D-----0A75E0A75F-----0A7600A761-----0A7620A763-----0A7640A765-----0A7660A767-----0A7680A769-----0A76A0A76B-----0A76C0A76D-----0A76E0A76F-----0A7790A77A-----0A77B0A77C-----0A77D01D79-----0A77E0A77F-----0A7800A781-----0A7820A783-----0A7840A785-----0A7860A787-----0A78B0A78C-----0A78D00265-----0A7900A791-----0A7920A793-----0A7960A797-----0A7980A799-----0A79A0A79B-----0A79C0A79D-----0A79E0A79F-----0A7A00A7A1-----0A7A20A7A3-----0A7A40A7A5-----0A7A60A7A7-----0A7A80A7A9-----0A7AA00266-----0A7AB0025C-----0A7AC00261-----0A7AD0026C-----0A7AE0026A-----0A7B00029E-----0A7B100287-----0A7B20029D-----0A7B30AB53-----0A7B40A7B5-----0A7B60A7B7-----0A7B80A7B9-----0A7BA0A7BB-----0A7BC0A7BD-----0A7BE0A7BF-----0A7C00A7C1-----0A7C20A7C3-----0A7C40A794-----0A7C500282-----0A7C601D8E-----0A7C70A7C8-----0A7C90A7CA-----0A7D00A7D1-----0A7D60A7D7-----0A7D80A7D9-----0A7F50A7F6-----0FF210FF41-----0FF220FF42-----"
    \o "0FF230FF43-----0FF240FF44-----0FF250FF45-----0FF260FF46-----0FF270FF47-----0FF280FF48-----0FF290FF49-----0FF2A0FF4A-----0FF2B0FF4B-----0FF2C0FF4C-----0FF2D0FF4D-----0FF2E0FF4E-----0FF2F0FF4F-----0FF300FF50-----0FF310FF51-----0FF320FF52-----0FF330FF53-----0FF340FF54-----0FF350FF55-----0FF360FF56-----0FF370FF57-----0FF380FF58-----0FF390FF59-----0FF3A0FF5A-----1040010428-----1040110429-----104021042A-----104031042B-----104041042C-----104051042D-----104061042E-----104071042F-----1040810430-----1040910431-----1040A10432-----1040B10433-----1040C10434-----1040D10435-----1040E10436-----1040F10437-----1041010438-----1041110439-----104121043A-----104131043B-----104141043C-----104151043D-----104161043E-----104171043F-----1041810440-----1041910441-----1041A10442-----1041B10443-----1041C10444-----1041D10445-----1041E10446-----1041F10447-----1042010448-----1042110449-----104221044A-----104231044B-----104241044C-----104251044D-----104261044E-----104271044F-----104B0104D8-----104B1104D9-----"
    \o "104B2104DA-----104B3104DB-----104B4104DC-----104B5104DD-----104B6104DE-----104B7104DF-----104B8104E0-----104B9104E1-----104BA104E2-----104BB104E3-----104BC104E4-----104BD104E5-----104BE104E6-----104BF104E7-----104C0104E8-----104C1104E9-----104C2104EA-----104C3104EB-----104C4104EC-----104C5104ED-----104C6104EE-----104C7104EF-----104C8104F0-----104C9104F1-----104CA104F2-----104CB104F3-----104CC104F4-----104CD104F5-----104CE104F6-----104CF104F7-----104D0104F8-----104D1104F9-----104D2104FA-----104D3104FB-----1057010597-----1057110598-----1057210599-----105731059A-----105741059B-----105751059C-----105761059D-----105771059E-----105781059F-----10579105A0-----1057A105A1-----1057C105A3-----1057D105A4-----1057E105A5-----1057F105A6-----10580105A7-----10581105A8-----10582105A9-----10583105AA-----10584105AB-----10585105AC-----10586105AD-----10587105AE-----10588105AF-----10589105B0-----1058A105B1-----1058C105B3-----1058D105B4-----1058E105B5-----1058F105B6-----10590105B7-----10591105B8-----"
    \o "10592105B9-----10594105BB-----10595105BC-----10C8010CC0-----10C8110CC1-----10C8210CC2-----10C8310CC3-----10C8410CC4-----10C8510CC5-----10C8610CC6-----10C8710CC7-----10C8810CC8-----10C8910CC9-----10C8A10CCA-----10C8B10CCB-----10C8C10CCC-----10C8D10CCD-----10C8E10CCE-----10C8F10CCF-----10C9010CD0-----10C9110CD1-----10C9210CD2-----10C9310CD3-----10C9410CD4-----10C9510CD5-----10C9610CD6-----10C9710CD7-----10C9810CD8-----10C9910CD9-----10C9A10CDA-----10C9B10CDB-----10C9C10CDC-----10C9D10CDD-----10C9E10CDE-----10C9F10CDF-----10CA010CE0-----10CA110CE1-----10CA210CE2-----10CA310CE3-----10CA410CE4-----10CA510CE5-----10CA610CE6-----10CA710CE7-----10CA810CE8-----10CA910CE9-----10CAA10CEA-----10CAB10CEB-----10CAC10CEC-----10CAD10CED-----10CAE10CEE-----10CAF10CEF-----10CB010CF0-----10CB110CF1-----10CB210CF2-----118A0118C0-----118A1118C1-----118A2118C2-----118A3118C3-----118A4118C4-----118A5118C5-----118A6118C6-----118A7118C7-----118A8118C8-----118A9118C9-----118AA118CA-----118AB118CB-----"
    \o "118AC118CC-----118AD118CD-----118AE118CE-----118AF118CF-----118B0118D0-----118B1118D1-----118B2118D2-----118B3118D3-----118B4118D4-----118B5118D5-----118B6118D6-----118B7118D7-----118B8118D8-----118B9118D9-----118BA118DA-----118BB118DB-----118BC118DC-----118BD118DD-----118BE118DE-----118BF118DF-----16E4016E60-----16E4116E61-----16E4216E62-----16E4316E63-----16E4416E64-----16E4516E65-----16E4616E66-----16E4716E67-----16E4816E68-----16E4916E69-----16E4A16E6A-----16E4B16E6B-----16E4C16E6C-----16E4D16E6D-----16E4E16E6E-----16E4F16E6F-----16E5016E70-----16E5116E71-----16E5216E72-----16E5316E73-----16E5416E74-----16E5516E75-----16E5616E76-----16E5716E77-----16E5816E78-----16E5916E79-----16E5A16E7A-----16E5B16E7B-----16E5C16E7C-----16E5D16E7D-----16E5E16E7E-----16E5F16E7F-----1E9001E922-----1E9011E923-----1E9021E924-----1E9031E925-----1E9041E926-----1E9051E927-----1E9061E928-----1E9071E929-----1E9081E92A-----1E9091E92B-----1E90A1E92C-----1E90B1E92D-----1E90C1E92E-----1E90D1E92F-----"
    \o "1E90E1E930-----1E90F1E931-----1E9101E932-----1E9111E933-----1E9121E934-----1E9131E935-----1E9141E936-----1E9151E937-----1E9161E938-----1E9171E939-----1E9181E93A-----1E9191E93B-----1E91A1E93C-----1E91B1E93D-----1E91C1E93E-----1E91D1E93F-----1E91E1E940-----1E91F1E941-----1E9201E942-----1E9211E943-----"

\* what str.lower() looks at around a capital sigma: the characters that are
\* case-ignorable (I) and the cased ones that are not (C)
CaseText ==
    "00027I0002EI0003AI00041C00042C00043C00044C00045C00046C00047C00048C00049C0004AC0004BC0004CC0004DC0004EC0004FC00050C00051C00052C00053C00054C00055C00056C00057C00058C00059C0005AC0005EI00060I00061C00062C00063C00064C00065C00066C00067C00068C00069C0006AC0006BC0006CC0006DC0006EC0006FC00070C00071C00072C00073C00074C00075C00076C00077C00078C00079C0007AC000A8I000AAC000ADI000AFI000B4I000B5C000B7I000B8I000BAC000C0C000C1C000C2C000C3C000C4C000C5C000C6C000C7C000C8C000C9C000CAC000CBC000CCC000CDC000CEC000CFC000D0C000D1C000D2C000D3C000D4C000D5C000D6C000D8C000D9C000DAC000DBC000DCC000DDC000DEC000DFC000E0C000E1C000E2C000E3C000E4C000E5C000E6C000E7C000E8C000E9C000EAC000EBC000ECC000EDC000EEC000EFC000F0C000F1C000F2C000F3C000F4C000F5C000F6C000F8C000F9C000FAC000FBC000FCC000FDC000FEC000FFC00100C00101C00102C00103C00104C00105C00106C00107C00108C00109C0010AC0010BC0010CC0010DC0010EC0010FC00110C00111C00112C00113C00114C00115C00116C00117C00118C00119C0011AC0011BC0011CC0011DC0011EC0011FC00120C00121C00122C00123C00124C00125C"
    \o "00126C00127C00128C00129C0012AC0012BC0012CC0012DC0012EC0012FC00130C00131C00132C00133C00134C00135C00136C00137C00138C00139C0013AC0013BC0013CC0013DC0013EC0013FC00140C00141C00142C00143C00144C00145C00146C00147C00148C00149C0014AC0014BC0014CC0014DC0014EC0014FC00150C00151C00152C00153C00154C00155C00156C00157C00158C00159C0015AC0015BC0015CC0015DC0015EC0015FC00160C00161C00162C00163C00164C00165C00166C00167C00168C00169C0016AC0016BC0016CC0016DC0016EC0016FC00170C00171C00172C00173C00174C00175C00176C00177C00178C00179C0017AC0017BC0017CC0017DC0017EC0017FC00180C00181C00182C00183C00184C00185C00186C00187C00188C00189C0018AC0018BC0018CC0018DC0018EC0018FC00190C00191C00192C00193C00194C00195C00196C00197C00198C00199C0019AC0019BC0019CC0019DC0019EC0019FC001A0C001A1C001A2C001A3C001A4C001A5C001A6C001A7C001A8C001A9C001AAC001ABC001ACC001ADC001AEC001AFC001B0C001B1C001B2C001B3C001B4C001B5C001B6C001B7C001B8C001B9C001BAC001BCC001BDC001BEC001BFC001C4C001C5C001C6C001C7C001C8C001C9C001CAC001CBC001CCC001CDC001CEC001CFC001D0C"
    \o "001D1C001D2C001D3C001D4C001D5C001D6C001D7C001D8C001D9C001DAC001DBC001DCC001DDC001DEC001DFC001E0C001E1C001E2C001E3C001E4C001E5C001E6C001E7C001E8C001E9C001EAC001EBC001ECC001EDC001EEC001EFC001F0C001F1C001F2C001F3C001F4C001F5C001F6C001F7C001F8C001F9C001FAC001FBC001FCC001FDC001FEC001FFC00200C00201C00202C00203C00204C00205C00206C00207C00208C00209C0020AC0020BC0020CC0020DC0020EC0020FC00210C00211C00212C00213C00214C00215C00216C00217C00218C00219C0021AC0021BC0021CC0021DC0021EC0021FC00220C00221C00222C00223C00224C00225C00226C00227C00228C00229C0022AC0022BC0022CC0022DC0022EC0022FC00230C00231C00232C00233C00234C00235C00236C00237C00238C00239C0023AC0023BC0023CC0023DC0023EC0023FC00240C00241C00242C00243C00244C00245C00246C00247C00248C00249C0024AC0024BC0024CC0024DC0024EC0024FC00250C00251C00252C00253C00254C00255C00256C00257C00258C00259C0025AC0025BC0025CC0025DC0025EC0025FC00260C00261C00262C00263C00264C00265C00266C00267C00268C00269C0026AC0026BC0026CC0026DC0026EC0026FC00270C00271C00272C00273C00274C00275C00276C"
    \o "00277C00278C00279C0027AC0027BC0027CC0027DC0027EC0027FC00280C00281C00282C00283C00284C00285C00286C00287C00288C00289C0028AC0028BC0028CC0028DC0028EC0028FC00290C00291C00292C00293C00295C00296C00297C00298C00299C0029AC0029BC0029CC0029DC0029EC0029FC002A0C002A1C002A2C002A3C002A4C002A5C002A6C002A7C002A8C002A9C002AAC002ABC002ACC002ADC002AEC002AFC002B0I002B1I002B2I002B3I002B4I002B5I002B6I002B7I002B8I002B9I002BAI002BBI002BCI002BDI002BEI002BFI002C0I002C1I002C2I002C3I002C4I002C5I002C6I002C7I002C8I002C9I002CAI002CBI002CCI002CDI002CEI002CFI002D0I002D1I002D2I002D3I002D4I002D5I002D6I002D7I002D8I002D9I002DAI002DBI002DCI002DDI002DEI002DFI002E0I002E1I002E2I002E3I002E4I002E5I002E6I002E7I002E8I002E9I002EAI002EBI002ECI002EDI002EEI002EFI002F0I002F1I002F2I002F3I002F4I002F5I002F6I002F7I002F8I002F9I002FAI002FBI002FCI002FDI002FEI002FFI00300I00301I00302I00303I00304I00305I00306I00307I00308I00309I0030AI0030BI0030CI0030DI0030EI0030FI00310I00311I00312I00313I00314I00315I00316I00317I00318I00319I0031AI0031BI0031CI0031DI"
    \o "0031EI0031FI00320I00321I00322I00323I00324I00325I00326I00327I00328I00329I0032AI0032BI0032CI0032DI0032EI0032FI00330I00331I00332I00333I00334I00335I00336I00337I00338I00339I0033AI0033BI0033CI0033DI0033EI0033FI00340I00341I00342I00343I00344I00345I00346I00347I00348I00349I0034AI0034BI0034CI0034DI0034EI0034FI00350I00351I00352I00353I00354I00355I00356I00357I00358I00359I0035AI0035BI0035CI0035DI0035EI0035FI00360I00361I00362I00363I00364I00365I00366I00367I00368I00369I0036AI0036BI0036CI0036DI0036EI0036FI00370C00371C00372C00373C00374I00375I00376C00377C0037AI0037BC0037CC0037DC0037FC00384I00385I00386C00387I00388C00389C0038AC0038CC0038EC0038FC00390C00391C00392C00393C00394C00395C00396C00397C00398C00399C0039AC0039BC0039CC0039DC0039EC0039FC003A0C003A1C003A3C003A4C003A5C003A6C003A7C003A8C003A9C003AAC003ABC003ACC003ADC003AEC003AFC003B0C003B1C003B2C003B3C003B4C003B5C003B6C003B7C003B8C003B9C003BAC003BBC003BCC003BDC003BEC003BFC003C0C003C1C003C2C003C3C003C4C003C5C003C6C003C7C003C8C003C9C003CAC003CBC003CCC003CDC"
    \o "003CEC003CFC003D0C003D1C003D2C003D3C003D4C003D5C003D6C003D7C003D8C003D9C003DAC003DBC003DCC003DDC003DEC003DFC003E0C003E1C003E2C003E3C003E4C003E5C003E6C003E7C003E8C003E9C003EAC003EBC003ECC003EDC003EEC003EFC003F0C003F1C003F2C003F3C003F4C003F5C003F7C003F8C003F9C003FAC003FBC003FCC003FDC003FEC003FFC00400C00401C00402C00403C00404C00405C00406C00407C00408C00409C0040AC0040BC0040CC0040DC0040EC0040FC00410C00411C00412C00413C00414C00415C00416C00417C00418C00419C0041AC0041BC0041CC0041DC0041EC0041FC00420C00421C00422C00423C00424C00425C00426C00427C00428C00429C0042AC0042BC0042CC0042DC0042EC0042FC00430C00431C00432C00433C00434C00435C00436C00437C00438C00439C0043AC0043BC0043CC0043DC0043EC0043FC00440C00441C00442C00443C00444C00445C00446C00447C00448C00449C0044AC0044BC0044CC0044DC0044EC0044FC00450C00451C00452C00453C00454C00455C00456C00457C00458C00459C0045AC0045BC0045CC0045DC0045EC0045FC00460C00461C00462C00463C00464C00465C00466C00467C00468C00469C0046AC0046BC0046CC0046DC0046EC0046FC00470C00471C00472C00473C00474C"
    \o "00475C00476C00477C00478C00479C0047AC0047BC0047CC0047DC0047EC0047FC00480C00481C00483I00484I00485I00486I00487I00488I00489I0048AC0048BC0048CC0048DC0048EC0048FC00490C00491C00492C00493C00494C00495C00496C00497C00498C00499C0049AC0049BC0049CC0049DC0049EC0049FC004A0C004A1C004A2C004A3C004A4C004A5C004A6C004A7C004A8C004A9C004AAC004ABC004ACC004ADC004AEC004AFC004B0C004B1C004B2C004B3C004B4C004B5C004B6C004B7C004B8C004B9C004BAC004BBC004BCC004BDC004BEC004BFC004C0C004C1C004C2C004C3C004C4C004C5C004C6C004C7C004C8C004C9C004CAC004CBC004CCC004CDC004CEC004CFC004D0C004D1C004D2C004D3C004D4C004D5C004D6C004D7C004D8C004D9C004DAC004DBC004DCC004DDC004DEC004DFC004E0C004E1C004E2C004E3C004E4C004E5C004E6C004E7C004E8C004E9C004EAC004EBC004ECC004EDC004EEC004EFC004F0C004F1C004F2C004F3C004F4C004F5C004F6C004F7C004F8C004F9C004FAC004FBC004FCC004FDC004FEC004FFC00500C00501C00502C00503C00504C00505C00506C00507C00508C00509C0050AC0050BC0050CC0050DC0050EC0050FC00510C00511C00512C00513C00514C00515C00516C00517C00518C00519C0051AC0051BC"
    \o "0051CC0051DC0051EC0051FC00520C00521C00522C00523C00524C00525C00526C00527C00528C00529C0052AC0052BC0052CC0052DC0052EC0052FC00531C00532C00533C00534C00535C00536C00537C00538C00539C0053AC0053BC0053CC0053DC0053EC0053FC00540C00541C00542C00543C00544C00545C00546C00547C00548C00549C0054AC0054BC0054CC0054DC0054EC0054FC00550C00551C00552C00553C00554C00555C00556C00559I0055FI00560C00561C00562C00563C00564C00565C00566C00567C00568C00569C0056AC0056BC0056CC0056DC0056EC0056FC00570C00571C00572C00573C00574C00575C00576C00577C00578C00579C0057AC0057BC0057CC0057DC0057EC0057FC00580C00581C00582C00583C00584C00585C00586C00587C00588C00591I00592I00593I00594I00595I00596I00597I00598I00599I0059AI0059BI0059CI0059DI0059EI0059FI005A0I005A1I005A2I005A3I005A4I005A5I005A6I005A7I005A8I005A9I005AAI005ABI005ACI005ADI005AEI005AFI005B0I005B1I005B2I005B3I005B4I005B5I005B6I005B7I005B8I005B9I005BAI005BBI005BCI005BDI005BFI005C1I005C2I005C4I005C5I005C7I005F4I00600I00601I00602I00603I00604I00605I00610I00611I00612I00613I00614I00615I00616I"
    \o "00617I00618I00619I0061AI0061CI00640I0064BI0064CI0064DI0064EI0064FI00650I00651I00652I00653I00654I00655I00656I00657I00658I00659I0065AI0065BI0065CI0065DI0065EI0065FI00670I006D6I006D7I006D8I006D9I006DAI006DBI006DCI006DDI006DFI006E0I006E1I006E2I006E3I006E4I006E5I006E6I006E7I006E8I006EAI006EBI006ECI006EDI0070FI00711I00730I00731I00732I00733I00734I00735I00736I00737I00738I00739I0073AI0073BI0073CI0073DI0073EI0073FI00740I00741I00742I00743I00744I00745I00746I00747I00748I00749I0074AI007A6I007A7I007A8I007A9I007AAI007ABI007ACI007ADI007AEI007AFI007B0I007EBI007ECI007EDI007EEI007EFI007F0I007F1I007F2I007F3I007F4I007F5I007FAI007FDI00816I00817I00818I00819I0081AI0081BI0081CI0081DI0081EI0081FI00820I00821I00822I00823I00824I00825I00826I00827I00828I00829I0082AI0082BI0082CI0082DI00859I0085AI0085BI00888I00890I00891I00898I00899I0089AI0089BI0089CI0089DI0089EI0089FI008C9I008CAI008CBI008CCI008CDI008CEI008CFI008D0I008D1I008D2I008D3I008D4I008D5I008D6I008D7I008D8I008D9I008DAI008DBI008DCI008DDI008DEI008DFI008E0I008E1I"
    \o "008E2I008E3I008E4I008E5I008E6I008E7I008E8I008E9I008EAI008EBI008ECI008EDI008EEI008EFI008F0I008F1I008F2I008F3I008F4I008F5I008F6I008F7I008F8I008F9I008FAI008FBI008FCI008FDI008FEI008FFI00900I00901I00902I0093AI0093CI00941I00942I00943I00944I00945I00946I00947I00948I0094DI00951I00952I00953I00954I00955I00956I00957I00962I00963I00971I00981I009BCI009C1I009C2I009C3I009C4I009CDI009E2I009E3I009FEI00A01I00A02I00A3CI00A41I00A42I00A47I00A48I00A4BI00A4CI00A4DI00A51I00A70I00A71I00A75I00A81I00A82I00ABCI00AC1I00AC2I00AC3I00AC4I00AC5I00AC7I00AC8I00ACDI00AE2I00AE3I00AFAI00AFBI00AFCI00AFDI00AFEI00AFFI00B01I00B3CI00B3FI00B41I00B42I00B43I00B44I00B4DI00B55I00B56I00B62I00B63I00B82I00BC0I00BCDI00C00I00C04I00C3CI00C3EI00C3FI00C40I00C46I00C47I00C48I00C4AI00C4BI00C4CI00C4DI00C55I00C56I00C62I00C63I00C81I00CBCI00CBFI00CC6I00CCCI00CCDI00CE2I00CE3I00D00I00D01I00D3BI00D3CI00D41I00D42I00D43I00D44I00D4DI00D62I00D63I00D81I00DCAI00DD2I00DD3I00DD4I00DD6I00E31I00E34I00E35I00E36I00E37I00E38I00E39I00E3AI00E46I00E47I00E48I00E49I"
    \o "00E4AI00E4BI00E4CI00E4DI00E4EI00EB1I00EB4I00EB5I00EB6I00EB7I00EB8I00EB9I00EBAI00EBBI00EBCI00EC6I00EC8I00EC9I00ECAI00ECBI00ECCI00ECDI00F18I00F19I00F35I00F37I00F39I00F71I00F72I00F73I00F74I00F75I00F76I00F77I00F78I00F79I00F7AI00F7BI00F7CI00F7DI00F7EI00F80I00F81I00F82I00F83I00F84I00F86I00F87I00F8DI00F8EI00F8FI00F90I00F91I00F92I00F93I00F94I00F95I00F96I00F97I00F99I00F9AI00F9BI00F9CI00F9DI00F9EI00F9FI00FA0I00FA1I00FA2I00FA3I00FA4I00FA5I00FA6I00FA7I00FA8I00FA9I00FAAI00FABI00FACI00FADI00FAEI00FAFI00FB0I00FB1I00FB2I00FB3I00FB4I00FB5I00FB6I00FB7I00FB8I00FB9I00FBAI00FBBI00FBCI00FC6I0102DI0102EI0102FI01030I01032I01033I01034I01035I01036I01037I01039I0103AI0103DI0103EI01058I01059I0105EI0105FI01060I01071I01072I01073I01074I01082I01085I01086I0108DI0109DI010A0C010A1C010A2C010A3C010A4C010A5C010A6C010A7C010A8C010A9C010AAC010ABC010ACC010ADC010AEC010AFC010B0C010B1C010B2C010B3C010B4C010B5C010B6C010B7C010B8C010B9C010BAC010BBC010BCC010BDC010BEC010BFC010C0C010C1C010C2C010C3C010C4C010C5C010C7C010CDC010D0C010D1C"
    \o "010D2C010D3C010D4C010D5C010D6C010D7C010D8C010D9C010DAC010DBC010DCC010DDC010DEC010DFC010E0C010E1C010E2C010E3C010E4C010E5C010E6C010E7C010E8C010E9C010EAC010EBC010ECC010EDC010EEC010EFC010F0C010F1C010F2C010F3C010F4C010F5C010F6C010F7C010F8C010F9C010FAC010FCI010FDC010FEC010FFC0135DI0135EI0135FI013A0C013A1C013A2C013A3C013A4C013A5C013A6C013A7C013A8C013A9C013AAC013ABC013ACC013ADC013AEC013AFC013B0C013B1C013B2C013B3C013B4C013B5C013B6C013B7C013B8C013B9C013BAC013BBC013BCC013BDC013BEC013BFC013C0C013C1C013C2C013C3C013C4C013C5C013C6C013C7C013C8C013C9C013CAC013CBC013CCC013CDC013CEC013CFC013D0C013D1C013D2C013D3C013D4C013D5C013D6C013D7C013D8C013D9C013DAC013DBC013DCC013DDC013DEC013DFC013E0C013E1C013E2C013E3C013E4C013E5C013E6C013E7C013E8C013E9C013EAC013EBC013ECC013EDC013EEC013EFC013F0C013F1C013F2C013F3C013F4C013F5C013F8C013F9C013FAC013FBC013FCC013FDC01712I01713I01714I01732I01733I01752I01753I01772I01773I017B4I017B5I017B7I017B8I017B9I017BAI017BBI017BCI017BDI017C6I017C9I017CAI017CBI017CCI017CDI017CEI017CFI"
    \o "017D0I017D1I017D2I017D3I017D7I017DDI0180BI0180CI0180DI0180EI0180FI01843I01885I01886I018A9I01920I01921I01922I01927I01928I01932I01939I0193AI0193BI01A17I01A18I01A1BI01A56I01A58I01A59I01A5AI01A5BI01A5CI01A5DI01A5EI01A60I01A62I01A65I01A66I01A67I01A68I01A69I01A6AI01A6BI01A6CI01A73I01A74I01A75I01A76I01A77I01A78I01A79I01A7AI01A7BI01A7CI01A7FI01AA7I01AB0I01AB1I01AB2I01AB3I01AB4I01AB5I01AB6I01AB7I01AB8I01AB9I01ABAI01ABBI01ABCI01ABDI01ABEI01ABFI01AC0I01AC1I01AC2I01AC3I01AC4I01AC5I01AC6I01AC7I01AC8I01AC9I01ACAI01ACBI01ACCI01ACDI01ACEI01B00I01B01I01B02I01B03I01B34I01B36I01B37I01B38I01B39I01B3AI01B3CI01B42I01B6BI01B6CI01B6DI01B6EI01B6FI01B70I01B71I01B72I01B73I01B80I01B81I01BA2I01BA3I01BA4I01BA5I01BA8I01BA9I01BABI01BACI01BADI01BE6I01BE8I01BE9I01BEDI01BEFI01BF0I01BF1I01C2CI01C2DI01C2EI01C2FI01C30I01C31I01C32I01C33I01C36I01C37I01C78I01C79I01C7AI01C7BI01C7CI01C7DI01C80C01C81C01C82C01C83C01C84C01C85C01C86C01C87C01C88C01C90C01C91C01C92C01C93C01C94C01C95C01C96C01C97C01C98C01C99C01C9AC01C9BC01C9CC01C9DC"
    \o "01C9EC01C9FC01CA0C01CA1C01CA2C01CA3C01CA4C01CA5C01CA6C01CA7C01CA8C01CA9C01CAAC01CABC01CACC01CADC01CAEC01CAFC01CB0C01CB1C01CB2C01CB3C01CB4C01CB5C01CB6C01CB7C01CB8C01CB9C01CBAC01CBDC01CBEC01CBFC01CD0I01CD1I01CD2I01CD4I01CD5I01CD6I01CD7I01CD8I01CD9I01CDAI01CDBI01CDCI01CDDI01CDEI01CDFI01CE0I01CE2I01CE3I01CE4I01CE5I01CE6I01CE7I01CE8I01CEDI01CF4I01CF8I01CF9I01D00C01D01C01D02C01D03C01D04C01D05C01D06C01D07C01D08C01D09C01D0AC01D0BC01D0CC01D0DC01D0EC01D0FC01D10C01D11C01D12C01D13C01D14C01D15C01D16C01D17C01D18C01D19C01D1AC01D1BC01D1CC01D1DC01D1EC01D1FC01D20C01D21C01D22C01D23C01D24C01D25C01D26C01D27C01D28C01D29C01D2AC01D2BC01D2CI01D2DI01D2EI01D2FI01D30I01D31I01D32I01D33I01D34I01D35I01D36I01D37I01D38I01D39I01D3AI01D3BI01D3CI01D3DI01D3EI01D3FI01D40I01D41I01D42I01D43I01D44I01D45I01D46I01D47I01D48I01D49I01D4AI01D4BI01D4CI01D4DI01D4EI01D4FI01D50I01D51I01D52I01D53I01D54I01D55I01D56I01D57I01D58I01D59I01D5AI01D5BI01D5CI01D5DI01D5EI01D5FI01D60I01D61I01D62I01D63I01D64I01D65I01D66I01D67I01D68I01D69I01D6AI"
    \o "01D6BC01D6CC01D6DC01D6EC01D6FC01D70C01D71C01D72C01D73C01D74C01D75C01D76C01D77C01D78I01D79C01D7AC01D7BC01D7CC01D7DC01D7EC01D7FC01D80C01D81C01D82C01D83C01D84C01D85C01D86C01D87C01D88C01D89C01D8AC01D8BC01D8CC01D8DC01D8EC01D8FC01D90C01D91C01D92C01D93C01D94C01D95C01D96C01D97C01D98C01D99C01D9AC01D9BI01D9CI01D9DI01D9EI01D9FI01DA0I01DA1I01DA2I01DA3I01DA4I01DA5I01DA6I01DA7I01DA8I01DA9I01DAAI01DABI01DACI01DADI01DAEI01DAFI01DB0I01DB1I01DB2I01DB3I01DB4I01DB5I01DB6I01DB7I01DB8I01DB9I01DBAI01DBBI01DBCI01DBDI01DBEI01DBFI01DC0I01DC1I01DC2I01DC3I01DC4I01DC5I01DC6I01DC7I01DC8I01DC9I01DCAI01DCBI01DCCI01DCDI01DCEI01DCFI01DD0I01DD1I01DD2I01DD3I01DD4I01DD5I01DD6I01DD7I01DD8I01DD9I01DDAI01DDBI01DDCI01DDDI01DDEI01DDFI01DE0I01DE1I01DE2I01DE3I01DE4I01DE5I01DE6I01DE7I01DE8I01DE9I01DEAI01DEBI01DECI01DEDI01DEEI01DEFI01DF0I01DF1I01DF2I01DF3I01DF4I01DF5I01DF6I01DF7I01DF8I01DF9I01DFAI01DFBI01DFCI01DFDI01DFEI01DFFI01E00C01E01C01E02C01E03C01E04C01E05C01E06C01E07C01E08C01E09C01E0AC01E0BC01E0CC01E0DC01E0EC01E0FC01E10C"
    \o "01E11C01E12C01E13C01E14C01E15C01E16C01E17C01E18C01E19C01E1AC01E1BC01E1CC01E1DC01E1EC01E1FC01E20C01E21C01E22C01E23C01E24C01E25C01E26C01E27C01E28C01E29C01E2AC01E2BC01E2CC01E2DC01E2EC01E2FC01E30C01E31C01E32C01E33C01E34C01E35C01E36C01E37C01E38C01E39C01E3AC01E3BC01E3CC01E3DC01E3EC01E3FC01E40C01E41C01E42C01E43C01E44C01E45C01E46C01E47C01E48C01E49C01E4AC01E4BC01E4CC01E4DC01E4EC01E4FC01E50C01E51C01E52C01E53C01E54C01E55C01E56C01E57C01E58C01E59C01E5AC01E5BC01E5CC01E5DC01E5EC01E5FC01E60C01E61C01E62C01E63C01E64C01E65C01E66C01E67C01E68C01E69C01E6AC01E6BC01E6CC01E6DC01E6EC01E6FC01E70C01E71C01E72C01E73C01E74C01E75C01E76C01E77C01E78C01E79C01E7AC01E7BC01E7CC01E7DC01E7EC01E7FC01E80C01E81C01E82C01E83C01E84C01E85C01E86C01E87C01E88C01E89C01E8AC01E8BC01E8CC01E8DC01E8EC01E8FC01E90C01E91C01E92C01E93C01E94C01E95C01E96C01E97C01E98C01E99C01E9AC01E9BC01E9CC01E9DC01E9EC01E9FC01EA0C01EA1C01EA2C01EA3C01EA4C01EA5C01EA6C01EA7C01EA8C01EA9C01EAAC01EABC01EACC01EADC01EAEC01EAFC01EB0C01EB1C01EB2C01EB3C01EB4C01EB5C01EB6C"
    \o "01EB7C01EB8C01EB9C01EBAC01EBBC01EBCC01EBDC01EBEC01EBFC01EC0C01EC1C01EC2C01EC3C01EC4C01EC5C01EC6C01EC7C01EC8C01EC9C01ECAC01ECBC01ECCC01ECDC01ECEC01ECFC01ED0C01ED1C01ED2C01ED3C01ED4C01ED5C01ED6C01ED7C01ED8C01ED9C01EDAC01EDBC01EDCC01EDDC01EDEC01EDFC01EE0C01EE1C01EE2C01EE3C01EE4C01EE5C01EE6C01EE7C01EE8C01EE9C01EEAC01EEBC01EECC01EEDC01EEEC01EEFC01EF0C01EF1C01EF2C01EF3C01EF4C01EF5C01EF6C01EF7C01EF8C01EF9C01EFAC01EFBC01EFCC01EFDC01EFEC01EFFC01F00C01F01C01F02C01F03C01F04C01F05C01F06C01F07C01F08C01F09C01F0AC01F0BC01F0CC01F0DC01F0EC01F0FC01F10C01F11C01F12C01F13C01F14C01F15C01F18C01F19C01F1AC01F1BC01F1CC01F1DC01F20C01F21C01F22C01F23C01F24C01F25C01F26C01F27C01F28C01F29C01F2AC01F2BC01F2CC01F2DC01F2EC01F2FC01F30C01F31C01F32C01F33C01F34C01F35C01F36C01F37C01F38C01F39C01F3AC01F3BC01F3CC01F3DC01F3EC01F3FC01F40C01F41C01F42C01F43C01F44C01F45C01F48C01F49C01F4AC01F4BC01F4CC01F4DC01F50C01F51C01F52C01F53C01F54C01F55C01F56C01F57C01F59C01F5BC01F5DC01F5FC01F60C01F61C01F62C01F63C01F64C01F65C01F66C01F67C01F68C"
    \o "01F69C01F6AC01F6BC01F6CC01F6DC01F6EC01F6FC01F70C01F71C01F72C01F73C01F74C01F75C01F76C01F77C01F78C01F79C01F7AC01F7BC01F7CC01F7DC01F80C01F81C01F82C01F83C01F84C01F85C01F86C01F87C01F88C01F89C01F8AC01F8BC01F8CC01F8DC01F8EC01F8FC01F90C01F91C01F92C01F93C01F94C01F95C01F96C01F97C01F98C01F99C01F9AC01F9BC01F9CC01F9DC01F9EC01F9FC01FA0C01FA1C01FA2C01FA3C01FA4C01FA5C01FA6C01FA7C01FA8C01FA9C01FAAC01FABC01FACC01FADC01FAEC01FAFC01FB0C01FB1C01FB2C01FB3C01FB4C01FB6C01FB7C01FB8C01FB9C01FBAC01FBBC01FBCC01FBDI01FBEC01FBFI01FC0I01FC1I01FC2C01FC3C01FC4C01FC6C01FC7C01FC8C01FC9C01FCAC01FCBC01FCCC01FCDI01FCEI01FCFI01FD0C01FD1C01FD2C01FD3C01FD6C01FD7C01FD8C01FD9C01FDAC01FDBC01FDDI01FDEI01FDFI01FE0C01FE1C01FE2C01FE3C01FE4C01FE5C01FE6C01FE7C01FE8C01FE9C01FEAC01FEBC01FECC01FEDI01FEEI01FEFI01FF2C01FF3C01FF4C01FF6C01FF7C01FF8C01FF9C01FFAC01FFBC01FFCC01FFDI01FFEI0200BI0200CI0200DI0200EI0200FI02018I02019I02024I02027I0202AI0202BI0202CI0202DI0202EI02060I02061I02062I02063I02064I02066I02067I02068I02069I0206AI0206BI0206CI"
    \o "0206DI0206EI0206FI02071I0207FI02090I02091I02092I02093I02094I02095I02096I02097I02098I02099I0209AI0209BI0209CI020D0I020D1I020D2I020D3I020D4I020D5I020D6I020D7I020D8I020D9I020DAI020DBI020DCI020DDI020DEI020DFI020E0I020E1I020E2I020E3I020E4I020E5I020E6I020E7I020E8I020E9I020EAI020EBI020ECI020EDI020EEI020EFI020F0I02102C02107C0210AC0210BC0210CC0210DC0210EC0210FC02110C02111C02112C02113C02115C02119C0211AC0211BC0211CC0211DC02124C02126C02128C0212AC0212BC0212CC0212DC0212FC02130C02131C02132C02133C02134C02139C0213CC0213DC0213EC0213FC02145C02146C02147C02148C02149C0214EC02160C02161C02162C02163C02164C02165C02166C02167C02168C02169C0216AC0216BC0216CC0216DC0216EC0216FC02170C02171C02172C02173C02174C02175C02176C02177C02178C02179C0217AC0217BC0217CC0217DC0217EC0217FC02183C02184C024B6C024B7C024B8C024B9C024BAC024BBC024BCC024BDC024BEC024BFC024C0C024C1C024C2C024C3C024C4C024C5C024C6C024C7C024C8C024C9C024CAC024CBC024CCC024CDC024CEC024CFC024D0C024D1C024D2C024D3C024D4C024D5C024D6C024D7C024D8C024D9C024DAC024DBC024DCC"
    \o "024DDC024DEC024DFC024E0C024E1C024E2C024E3C024E4C024E5C024E6C024E7C024E8C024E9C02C00C02C01C02C02C02C03C02C04C02C05C02C06C02C07C02C08C02C09C02C0AC02C0BC02C0CC02C0DC02C0EC02C0FC02C10C02C11C02C12C02C13C02C14C02C15C02C16C02C17C02C18C02C19C02C1AC02C1BC02C1CC02C1DC02C1EC02C1FC02C20C02C21C02C22C02C23C02C24C02C25C02C26C02C27C02C28C02C29C02C2AC02C2BC02C2CC02C2DC02C2EC02C2FC02C30C02C31C02C32C02C33C02C34C02C35C02C36C02C37C02C38C02C39C02C3AC02C3BC02C3CC02C3DC02C3EC02C3FC02C40C02C41C02C42C02C43C02C44C02C45C02C46C02C47C02C48C02C49C02C4AC02C4BC02C4CC02C4DC02C4EC02C4FC02C50C02C51C02C52C02C53C02C54C02C55C02C56C02C57C02C58C02C59C02C5AC02C5BC02C5CC02C5DC02C5EC02C5FC02C60C02C61C02C62C02C63C02C64C02C65C02C66C02C67C02C68C02C69C02C6AC02C6BC02C6CC02C6DC02C6EC02C6FC02C70C02C71C02C72C02C73C02C74C02C75C02C76C02C77C02C78C02C79C02C7AC02C7BC02C7CI02C7DI02C7EC02C7FC02C80C02C81C02C82C02C83C02C84C02C85C02C86C02C87C02C88C02C89C02C8AC02C8BC02C8CC02C8DC02C8EC02C8FC02C90C02C91C02C92C02C93C02C94C02C95C02C96C02C97C02C98C"
    \o "02C99C02C9AC02C9BC02C9CC02C9DC02C9EC02C9FC02CA0C02CA1C02CA2C02CA3C02CA4C02CA5C02CA6C02CA7C02CA8C02CA9C02CAAC02CABC02CACC02CADC02CAEC02CAFC02CB0C02CB1C02CB2C02CB3C02CB4C02CB5C02CB6C02CB7C02CB8C02CB9C02CBAC02CBBC02CBCC02CBDC02CBEC02CBFC02CC0C02CC1C02CC2C02CC3C02CC4C02CC5C02CC6C02CC7C02CC8C02CC9C02CCAC02CCBC02CCCC02CCDC02CCEC02CCFC02CD0C02CD1C02CD2C02CD3C02CD4C02CD5C02CD6C02CD7C02CD8C02CD9C02CDAC02CDBC02CDCC02CDDC02CDEC02CDFC02CE0C02CE1C02CE2C02CE3C02CE4C02CEBC02CECC02CEDC02CEEC02CEFI02CF0I02CF1I02CF2C02CF3C02D00C02D01C02D02C02D03C02D04C02D05C02D06C02D07C02D08C02D09C02D0AC02D0BC02D0CC02D0DC02D0EC02D0FC02D10C02D11C02D12C02D13C02D14C02D15C02D16C02D17C02D18C02D19C02D1AC02D1BC02D1CC02D1DC02D1EC02D1FC02D20C02D21C02D22C02D23C02D24C02D25C02D27C02D2DC02D6FI02D7FI02DE0I02DE1I02DE2I02DE3I02DE4I02DE5I02DE6I02DE7I02DE8I02DE9I02DEAI02DEBI02DECI02DEDI02DEEI02DEFI02DF0I02DF1I02DF2I02DF3I02DF4I02DF5I02DF6I02DF7I02DF8I02DF9I02DFAI02DFBI02DFCI02DFDI02DFEI02DFFI02E2FI03005I0302AI0302BI0302CI0302DI03031I"
    \o "03032I03033I03034I03035I0303BI03099I0309AI0309BI0309CI0309DI0309EI030FCI030FDI030FEI0A015I0A4F8I0A4F9I0A4FAI0A4FBI0A4FCI0A4FDI0A60CI0A640C0A641C0A642C0A643C0A644C0A645C0A646C0A647C0A648C0A649C0A64AC0A64BC0A64CC0A64DC0A64EC0A64FC0A650C0A651C0A652C0A653C0A654C0A655C0A656C0A657C0A658C0A659C0A65AC0A65BC0A65CC0A65DC0A65EC0A65FC0A660C0A661C0A662C0A663C0A664C0A665C0A666C0A667C0A668C0A669C0A66AC0A66BC0A66CC0A66DC0A66FI0A670I0A671I0A672I0A674I0A675I0A676I0A677I0A678I0A679I0A67AI0A67BI0A67CI0A67DI0A67FI0A680C0A681C0A682C0A683C0A684C0A685C0A686C0A687C0A688C0A689C0A68AC0A68BC0A68CC0A68DC0A68EC0A68FC0A690C0A691C0A692C0A693C0A694C0A695C0A696C0A697C0A698C0A699C0A69AC0A69BC0A69CI0A69DI0A69EI0A69FI0A6F0I0A6F1I0A700I0A701I0A702I0A703I0A704I0A705I0A706I0A707I0A708I0A709I0A70AI0A70BI0A70CI0A70DI0A70EI0A70FI0A710I0A711I0A712I0A713I0A714I0A715I0A716I0A717I0A718I0A719I0A71AI0A71BI0A71CI0A71DI0A71EI0A71FI0A720I0A721I0A722C0A723C0A724C0A725C0A726C0A727C0A728C0A729C0A72AC0A72BC0A72CC0A72DC0A72EC0A72FC0A730C"
    \o "0A731C0A732C0A733C0A734C0A735C0A736C0A737C0A738C0A739C0A73AC0A73BC0A73CC0A73DC0A73EC0A73FC0A740C0A741C0A742C0A743C0A744C0A745C0A746C0A747C0A748C0A749C0A74AC0A74BC0A74CC0A74DC0A74EC0A74FC0A750C0A751C0A752C0A753C0A754C0A755C0A756C0A757C0A758C0A759C0A75AC0A75BC0A75CC0A75DC0A75EC0A75FC0A760C0A761C0A762C0A763C0A764C0A765C0A766C0A767C0A768C0A769C0A76AC0A76BC0A76CC0A76DC0A76EC0A76FC0A770I0A771C0A772C0A773C0A774C0A775C0A776C0A777C0A778C0A779C0A77AC0A77BC0A77CC0A77DC0A77EC0A77FC0A780C0A781C0A782C0A783C0A784C0A785C0A786C0A787C0A788I0A789I0A78AI0A78BC0A78CC0A78DC0A78EC0A790C0A791C0A792C0A793C0A794C0A795C0A796C0A797C0A798C0A799C0A79AC0A79BC0A79CC0A79DC0A79EC0A79FC0A7A0C0A7A1C0A7A2C0A7A3C0A7A4C0A7A5C0A7A6C0A7A7C0A7A8C0A7A9C0A7AAC0A7ABC0A7ACC0A7ADC0A7AEC0A7AFC0A7B0C0A7B1C0A7B2C0A7B3C0A7B4C0A7B5C0A7B6C0A7B7C0A7B8C0A7B9C0A7BAC0A7BBC0A7BCC0A7BDC0A7BEC0A7BFC0A7C0C0A7C1C0A7C2C0A7C3C0A7C4C0A7C5C0A7C6C0A7C7C0A7C8C0A7C9C0A7CAC0A7D0C0A7D1C0A7D3C0A7D5C0A7D6C0A7D7C0A7D8C0A7D9C0A7F2I0A7F3I0A7F4I0A7F5C0A7F6C"
    \o "0A7F8I0A7F9I0A7FAC0A802I0A806I0A80BI0A825I0A826I0A82CI0A8C4I0A8C5I0A8E0I0A8E1I0A8E2I0A8E3I0A8E4I0A8E5I0A8E6I0A8E7I0A8E8I0A8E9I0A8EAI0A8EBI0A8ECI0A8EDI0A8EEI0A8EFI0A8F0I0A8F1I0A8FFI0A926I0A927I0A928I0A929I0A92AI0A92BI0A92CI0A92DI0A947I0A948I0A949I0A94AI0A94BI0A94CI0A94DI0A94EI0A94FI0A950I0A951I0A980I0A981I0A982I0A9B3I0A9B6I0A9B7I0A9B8I0A9B9I0A9BCI0A9BDI0A9CFI0A9E5I0A9E6I0AA29I0AA2AI0AA2BI0AA2CI0AA2DI0AA2EI0AA31I0AA32I0AA35I0AA36I0AA43I0AA4CI0AA70I0AA7CI0AAB0I0AAB2I0AAB3I0AAB4I0AAB7I0AAB8I0AABEI0AABFI0AAC1I0AADDI0AAECI0AAEDI0AAF3I0AAF4I0AAF6I0AB30C0AB31C0AB32C0AB33C0AB34C0AB35C0AB36C0AB37C0AB38C0AB39C0AB3AC0AB3BC0AB3CC0AB3DC0AB3EC0AB3FC0AB40C0AB41C0AB42C0AB43C0AB44C0AB45C0AB46C0AB47C0AB48C0AB49C0AB4AC0AB4BC0AB4CC0AB4DC0AB4EC0AB4FC0AB50C0AB51C0AB52C0AB53C0AB54C0AB55C0AB56C0AB57C0AB58C0AB59C0AB5AC0AB5BI0AB5CI0AB5DI0AB5EI0AB5FI0AB60C0AB61C0AB62C0AB63C0AB64C0AB65C0AB66C0AB67C0AB68C0AB69I0AB6AI0AB6BI0AB70C0AB71C0AB72C0AB73C0AB74C0AB75C0AB76C0AB77C0AB78C0AB79C0AB7AC0AB7BC0AB7CC0AB7DC0AB7EC"
    \o "0AB7FC0AB80C0AB81C0AB82C0AB83C0AB84C0AB85C0AB86C0AB87C0AB88C0AB89C0AB8AC0AB8BC0AB8CC0AB8DC0AB8EC0AB8FC0AB90C0AB91C0AB92C0AB93C0AB94C0AB95C0AB96C0AB97C0AB98C0AB99C0AB9AC0AB9BC0AB9CC0AB9DC0AB9EC0AB9FC0ABA0C0ABA1C0ABA2C0ABA3C0ABA4C0ABA5C0ABA6C0ABA7C0ABA8C0ABA9C0ABAAC0ABABC0ABACC0ABADC0ABAEC0ABAFC0ABB0C0ABB1C0ABB2C0ABB3C0ABB4C0ABB5C0ABB6C0ABB7C0ABB8C0ABB9C0ABBAC0ABBBC0ABBCC0ABBDC0ABBEC0ABBFC0ABE5I0ABE8I0ABEDI0FB00C0FB01C0FB02C0FB03C0FB04C0FB05C0FB06C0FB13C0FB14C0FB15C0FB16C0FB17C0FB1EI0FBB2I0FBB3I0FBB4I0FBB5I0FBB6I0FBB7I0FBB8I0FBB9I0FBBAI0FBBBI0FBBCI0FBBDI0FBBEI0FBBFI0FBC0I0FBC1I0FBC2I0FE00I0FE01I0FE02I0FE03I0FE04I0FE05I0FE06I0FE07I0FE08I0FE09I0FE0AI0FE0BI0FE0CI0FE0DI0FE0EI0FE0FI0FE13I0FE20I0FE21I0FE22I0FE23I0FE24I0FE25I0FE26I0FE27I0FE28I0FE29I0FE2AI0FE2BI0FE2CI0FE2DI0FE2EI0FE2FI0FE52I0FE55I0FEFFI0FF07I0FF0EI0FF1AI0FF21C0FF22C0FF23C0FF24C0FF25C0FF26C0FF27C0FF28C0FF29C0FF2AC0FF2BC0FF2CC0FF2DC0FF2EC0FF2FC0FF30C0FF31C0FF32C0FF33C0FF34C0FF35C0FF36C0FF37C0FF38C0FF39C0FF3AC0FF3EI0FF40I0FF41C"
    \o "0FF42C0FF43C0FF44C0FF45C0FF46C0FF47C0FF48C0FF49C0FF4AC0FF4BC0FF4CC0FF4DC0FF4EC0FF4FC0FF50C0FF51C0FF52C0FF53C0FF54C0FF55C0FF56C0FF57C0FF58C0FF59C0FF5AC0FF70I0FF9EI0FF9FI0FFE3I0FFF9I0FFFAI0FFFBI101FDI102E0I10376I10377I10378I10379I1037AI10400C10401C10402C10403C10404C10405C10406C10407C10408C10409C1040AC1040BC1040CC1040DC1040EC1040FC10410C10411C10412C10413C10414C10415C10416C10417C10418C10419C1041AC1041BC1041CC1041DC1041EC1041FC10420C10421C10422C10423C10424C10425C10426C10427C10428C10429C1042AC1042BC1042CC1042DC1042EC1042FC10430C10431C10432C10433C10434C10435C10436C10437C10438C10439C1043AC1043BC1043CC1043DC1043EC1043FC10440C10441C10442C10443C10444C10445C10446C10447C10448C10449C1044AC1044BC1044CC1044DC1044EC1044FC104B0C104B1C104B2C104B3C104B4C104B5C104B6C104B7C104B8C104B9C104BAC104BBC104BCC104BDC104BEC104BFC104C0C104C1C104C2C104C3C104C4C104C5C104C6C104C7C104C8C104C9C104CAC104CBC104CCC104CDC104CEC104CFC104D0C104D1C104D2C104D3C104D8C104D9C104DAC104DBC104DCC104DDC104DEC104DFC104E0C104E1C104E2C"
    \o "104E3C104E4C104E5C104E6C104E7C104E8C104E9C104EAC104EBC104ECC104EDC104EEC104EFC104F0C104F1C104F2C104F3C104F4C104F5C104F6C104F7C104F8C104F9C104FAC104FBC10570C10571C10572C10573C10574C10575C10576C10577C10578C10579C1057AC1057CC1057DC1057EC1057FC10580C10581C10582C10583C10584C10585C10586C10587C10588C10589C1058AC1058CC1058DC1058EC1058FC10590C10591C10592C10594C10595C10597C10598C10599C1059AC1059BC1059CC1059DC1059EC1059FC105A0C105A1C105A3C105A4C105A5C105A6C105A7C105A8C105A9C105AAC105ABC105ACC105ADC105AEC105AFC105B0C105B1C105B3C105B4C105B5C105B6C105B7C105B8C105B9C105BBC105BCC10780I10781I10782I10783I10784I10785I10787I10788I10789I1078AI1078BI1078CI1078DI1078EI1078FI10790I10791I10792I10793I10794I10795I10796I10797I10798I10799I1079AI1079BI1079CI1079DI1079EI1079FI107A0I107A1I107A2I107A3I107A4I107A5I107A6I107A7I107A8I107A9I107AAI107ABI107ACI107ADI107AEI107AFI107B0I107B2I107B3I107B4I107B5I107B6I107B7I107B8I107B9I107BAI10A01I10A02I10A03I10A05I10A06I10A0CI10A0DI10A0EI10A0FI10A38I10A39I10A3AI10A3FI10AE5I"
    \o "10AE6I10C80C10C81C10C82C10C83C10C84C10C85C10C86C10C87C10C88C10C89C10C8AC10C8BC10C8CC10C8DC10C8EC10C8FC10C90C10C91C10C92C10C93C10C94C10C95C10C96C10C97C10C98C10C99C10C9AC10C9BC10C9CC10C9DC10C9EC10C9FC10CA0C10CA1C10CA2C10CA3C10CA4C10CA5C10CA6C10CA7C10CA8C10CA9C10CAAC10CABC10CACC10CADC10CAEC10CAFC10CB0C10CB1C10CB2C10CC0C10CC1C10CC2C10CC3C10CC4C10CC5C10CC6C10CC7C10CC8C10CC9C10CCAC10CCBC10CCCC10CCDC10CCEC10CCFC10CD0C10CD1C10CD2C10CD3C10CD4C10CD5C10CD6C10CD7C10CD8C10CD9C10CDAC10CDBC10CDCC10CDDC10CDEC10CDFC10CE0C10CE1C10CE2C10CE3C10CE4C10CE5C10CE6C10CE7C10CE8C10CE9C10CEAC10CEBC10CECC10CEDC10CEEC10CEFC10CF0C10CF1C10CF2C10D24I10D25I10D26I10D27I10EABI10EACI10F46I10F47I10F48I10F49I10F4AI10F4BI10F4CI10F4DI10F4EI10F4FI10F50I10F82I10F83I10F84I10F85I11001I11038I11039I1103AI1103BI1103CI1103DI1103EI1103FI11040I11041I11042I11043I11044I11045I11046I11070I11073I11074I1107FI11080I11081I110B3I110B4I110B5I110B6I110B9I110BAI110BDI110C2I110CDI11100I11101I11102I11127I11128I11129I1112AI1112BI1112DI1112EI1112FI"
    \o "11130I11131I11132I11133I11134I11173I11180I11181I111B6I111B7I111B8I111B9I111BAI111BBI111BCI111BDI111BEI111C9I111CAI111CBI111CCI111CFI1122FI11230I11231I11234I11236I11237I1123EI112DFI112E3I112E4I112E5I112E6I112E7I112E8I112E9I112EAI11300I11301I1133BI1133CI11340I11366I11367I11368I11369I1136AI1136BI1136CI11370I11371I11372I11373I11374I11438I11439I1143AI1143BI1143CI1143DI1143EI1143FI11442I11443I11444I11446I1145EI114B3I114B4I114B5I114B6I114B7I114B8I114BAI114BFI114C0I114C2I114C3I115B2I115B3I115B4I115B5I115BCI115BDI115BFI115C0I115DCI115DDI11633I11634I11635I11636I11637I11638I11639I1163AI1163DI1163FI11640I116ABI116ADI116B0I116B1I116B2I116B3I116B4I116B5I116B7I1171DI1171EI1171FI11722I11723I11724I11725I11727I11728I11729I1172AI1172BI1182FI11830I11831I11832I11833I11834I11835I11836I11837I11839I1183AI118A0C118A1C118A2C118A3C118A4C118A5C118A6C118A7C118A8C118A9C118AAC118ABC118ACC118ADC118AEC118AFC118B0C118B1C118B2C118B3C118B4C118B5C118B6C118B7C118B8C118B9C118BAC118BBC118BCC118BDC118BEC118BFC118C0C118C1C"
    \o "118C2C118C3C118C4C118C5C118C6C118C7C118C8C118C9C118CAC118CBC118CCC118CDC118CEC118CFC118D0C118D1C118D2C118D3C118D4C118D5C118D6C118D7C118D8C118D9C118DAC118DBC118DCC118DDC118DEC118DFC1193BI1193CI1193EI11943I119D4I119D5I119D6I119D7I119DAI119DBI119E0I11A01I11A02I11A03I11A04I11A05I11A06I11A07I11A08I11A09I11A0AI11A33I11A34I11A35I11A36I11A37I11A38I11A3BI11A3CI11A3DI11A3EI11A47I11A51I11A52I11A53I11A54I11A55I11A56I11A59I11A5AI11A5BI11A8AI11A8BI11A8CI11A8DI11A8EI11A8FI11A90I11A91I11A92I11A93I11A94I11A95I11A96I11A98I11A99I11C30I11C31I11C32I11C33I11C34I11C35I11C36I11C38I11C39I11C3AI11C3BI11C3CI11C3DI11C3FI11C92I11C93I11C94I11C95I11C96I11C97I11C98I11C99I11C9AI11C9BI11C9CI11C9DI11C9EI11C9FI11CA0I11CA1I11CA2I11CA3I11CA4I11CA5I11CA6I11CA7I11CAAI11CABI11CACI11CADI11CAEI11CAFI11CB0I11CB2I11CB3I11CB5I11CB6I11D31I11D32I11D33I11D34I11D35I11D36I11D3AI11D3CI11D3DI11D3FI11D40I11D41I11D42I11D43I11D44I11D45I11D47I11D90I11D91I11D95I11D97I11EF3I11EF4I13430I13431I13432I13433I13434I13435I13436I13437I13438I16AF0I"
    \o "16AF1I16AF2I16AF3I16AF4I16B30I16B31I16B32I16B33I16B34I16B35I16B36I16B40I16B41I16B42I16B43I16E40C16E41C16E42C16E43C16E44C16E45C16E46C16E47C16E48C16E49C16E4AC16E4BC16E4CC16E4DC16E4EC16E4FC16E50C16E51C16E52C16E53C16E54C16E55C16E56C16E57C16E58C16E59C16E5AC16E5BC16E5CC16E5DC16E5EC16E5FC16E60C16E61C16E62C16E63C16E64C16E65C16E66C16E67C16E68C16E69C16E6AC16E6BC16E6CC16E6DC16E6EC16E6FC16E70C16E71C16E72C16E73C16E74C16E75C16E76C16E77C16E78C16E79C16E7AC16E7BC16E7CC16E7DC16E7EC16E7FC16F4FI16F8FI16F90I16F91I16F92I16F93I16F94I16F95I16F96I16F97I16F98I16F99I16F9AI16F9BI16F9CI16F9DI16F9EI16F9FI16FE0I16FE1I16FE3I16FE4I1AFF0I1AFF1I1AFF2I1AFF3I1AFF5I1AFF6I1AFF7I1AFF8I1AFF9I1AFFAI1AFFBI1AFFDI1AFFEI1BC9DI1BC9EI1BCA0I1BCA1I1BCA2I1BCA3I1CF00I1CF01I1CF02I1CF03I1CF04I1CF05I1CF06I1CF07I1CF08I1CF09I1CF0AI1CF0BI1CF0CI1CF0DI1CF0EI1CF0FI1CF10I1CF11I1CF12I1CF13I1CF14I1CF15I1CF16I1CF17I1CF18I1CF19I1CF1AI1CF1BI1CF1CI1CF1DI1CF1EI1CF1FI1CF20I1CF21I1CF22I1CF23I1CF24I1CF25I1CF26I1CF27I1CF28I1CF29I1CF2AI1CF2BI1CF2CI1CF2DI"
    \o "1CF30I1CF31I1CF32I1CF33I1CF34I1CF35I1CF36I1CF37I1CF38I1CF39I1CF3AI1CF3BI1CF3CI1CF3DI1CF3EI1CF3FI1CF40I1CF41I1CF42I1CF43I1CF44I1CF45I1CF46I1D167I1D168I1D169I1D173I1D174I1D175I1D176I1D177I1D178I1D179I1D17AI1D17BI1D17CI1D17DI1D17EI1D17FI1D180I1D181I1D182I1D185I1D186I1D187I1D188I1D189I1D18AI1D18BI1D1AAI1D1ABI1D1ACI1D1ADI1D242I1D243I1D244I1D400C1D401C1D402C1D403C1D404C1D405C1D406C1D407C1D408C1D409C1D40AC1D40BC1D40CC1D40DC1D40EC1D40FC1D410C1D411C1D412C1D413C1D414C1D415C1D416C1D417C1D418C1D419C1D41AC1D41BC1D41CC1D41DC1D41EC1D41FC1D420C1D421C1D422C1D423C1D424C1D425C1D426C1D427C1D428C1D429C1D42AC1D42BC1D42CC1D42DC1D42EC1D42FC1D430C1D431C1D432C1D433C1D434C1D435C1D436C1D437C1D438C1D439C1D43AC1D43BC1D43CC1D43DC1D43EC1D43FC1D440C1D441C1D442C1D443C1D444C1D445C1D446C1D447C1D448C1D449C1D44AC1D44BC1D44CC1D44DC1D44EC1D44FC1D450C1D451C1D452C1D453C1D454C1D456C1D457C1D458C1D459C1D45AC1D45BC1D45CC1D45DC1D45EC1D45FC1D460C1D461C1D462C1D463C1D464C1D465C1D466C1D467C1D468C1D469C1D46AC1D46BC1D46CC1D46DC1D46EC"
    \o "1D46FC1D470C1D471C1D472C1D473C1D474C1D475C1D476C1D477C1D478C1D479C1D47AC1D47BC1D47CC1D47DC1D47EC1D47FC1D480C1D481C1D482C1D483C1D484C1D485C1D486C1D487C1D488C1D489C1D48AC1D48BC1D48CC1D48DC1D48EC1D48FC1D490C1D491C1D492C1D493C1D494C1D495C1D496C1D497C1D498C1D499C1D49AC1D49BC1D49CC1D49EC1D49FC1D4A2C1D4A5C1D4A6C1D4A9C1D4AAC1D4ABC1D4ACC1D4AEC1D4AFC1D4B0C1D4B1C1D4B2C1D4B3C1D4B4C1D4B5C1D4B6C1D4B7C1D4B8C1D4B9C1D4BBC1D4BDC1D4BEC1D4BFC1D4C0C1D4C1C1D4C2C1D4C3C1D4C5C1D4C6C1D4C7C1D4C8C1D4C9C1D4CAC1D4CBC1D4CCC1D4CDC1D4CEC1D4CFC1D4D0C1D4D1C1D4D2C1D4D3C1D4D4C1D4D5C1D4D6C1D4D7C1D4D8C1D4D9C1D4DAC1D4DBC1D4DCC1D4DDC1D4DEC1D4DFC1D4E0C1D4E1C1D4E2C1D4E3C1D4E4C1D4E5C1D4E6C1D4E7C1D4E8C1D4E9C1D4EAC1D4EBC1D4ECC1D4EDC1D4EEC1D4EFC1D4F0C1D4F1C1D4F2C1D4F3C1D4F4C1D4F5C1D4F6C1D4F7C1D4F8C1D4F9C1D4FAC1D4FBC1D4FCC1D4FDC1D4FEC1D4FFC1D500C1D501C1D502C1D503C1D504C1D505C1D507C1D508C1D509C1D50AC1D50DC1D50EC1D50FC1D510C1D511C1D512C1D513C1D514C1D516C1D517C1D518C1D519C1D51AC1D51BC1D51CC1D51EC1D51FC1D520C1D521C1D522C1D523C1D524C"
    \o "1D525C1D526C1D527C1D528C1D529C1D52AC1D52BC1D52CC1D52DC1D52EC1D52FC1D530C1D531C1D532C1D533C1D534C1D535C1D536C1D537C1D538C1D539C1D53BC1D53CC1D53DC1D53EC1D540C1D541C1D542C1D543C1D544C1D546C1D54AC1D54BC1D54CC1D54DC1D54EC1D54FC1D550C1D552C1D553C1D554C1D555C1D556C1D557C1D558C1D559C1D55AC1D55BC1D55CC1D55DC1D55EC1D55FC1D560C1D561C1D562C1D563C1D564C1D565C1D566C1D567C1D568C1D569C1D56AC1D56BC1D56CC1D56DC1D56EC1D56FC1D570C1D571C1D572C1D573C1D574C1D575C1D576C1D577C1D578C1D579C1D57AC1D57BC1D57CC1D57DC1D57EC1D57FC1D580C1D581C1D582C1D583C1D584C1D585C1D586C1D587C1D588C1D589C1D58AC1D58BC1D58CC1D58DC1D58EC1D58FC1D590C1D591C1D592C1D593C1D594C1D595C1D596C1D597C1D598C1D599C1D59AC1D59BC1D59CC1D59DC1D59EC1D59FC1D5A0C1D5A1C1D5A2C1D5A3C1D5A4C1D5A5C1D5A6C1D5A7C1D5A8C1D5A9C1D5AAC1D5ABC1D5ACC1D5ADC1D5AEC1D5AFC1D5B0C1D5B1C1D5B2C1D5B3C1D5B4C1D5B5C1D5B6C1D5B7C1D5B8C1D5B9C1D5BAC1D5BBC1D5BCC1D5BDC1D5BEC1D5BFC1D5C0C1D5C1C1D5C2C1D5C3C1D5C4C1D5C5C1D5C6C1D5C7C1D5C8C1D5C9C1D5CAC1D5CBC1D5CCC1D5CDC1D5CEC1D5CFC1D5D0C1D5D1C"
    \o "1D5D2C1D5D3C1D5D4C1D5D5C1D5D6C1D5D7C1D5D8C1D5D9C1D5DAC1D5DBC1D5DCC1D5DDC1D5DEC1D5DFC1D5E0C1D5E1C1D5E2C1D5E3C1D5E4C1D5E5C1D5E6C1D5E7C1D5E8C1D5E9C1D5EAC1D5EBC1D5ECC1D5EDC1D5EEC1D5EFC1D5F0C1D5F1C1D5F2C1D5F3C1D5F4C1D5F5C1D5F6C1D5F7C1D5F8C1D5F9C1D5FAC1D5FBC1D5FCC1D5FDC1D5FEC1D5FFC1D600C1D601C1D602C1D603C1D604C1D605C1D606C1D607C1D608C1D609C1D60AC1D60BC1D60CC1D60DC1D60EC1D60FC1D610C1D611C1D612C1D613C1D614C1D615C1D616C1D617C1D618C1D619C1D61AC1D61BC1D61CC1D61DC1D61EC1D61FC1D620C1D621C1D622C1D623C1D624C1D625C1D626C1D627C1D628C1D629C1D62AC1D62BC1D62CC1D62DC1D62EC1D62FC1D630C1D631C1D632C1D633C1D634C1D635C1D636C1D637C1D638C1D639C1D63AC1D63BC1D63CC1D63DC1D63EC1D63FC1D640C1D641C1D642C1D643C1D644C1D645C1D646C1D647C1D648C1D649C1D64AC1D64BC1D64CC1D64DC1D64EC1D64FC1D650C1D651C1D652C1D653C1D654C1D655C1D656C1D657C1D658C1D659C1D65AC1D65BC1D65CC1D65DC1D65EC1D65FC1D660C1D661C1D662C1D663C1D664C1D665C1D666C1D667C1D668C1D669C1D66AC1D66BC1D66CC1D66DC1D66EC1D66FC1D670C1D671C1D672C1D673C1D674C1D675C1D676C1D677C"
    \o "1D678C1D679C1D67AC1D67BC1D67CC1D67DC1D67EC1D67FC1D680C1D681C1D682C1D683C1D684C1D685C1D686C1D687C1D688C1D689C1D68AC1D68BC1D68CC1D68DC1D68EC1D68FC1D690C1D691C1D692C1D693C1D694C1D695C1D696C1D697C1D698C1D699C1D69AC1D69BC1D69CC1D69DC1D69EC1D69FC1D6A0C1D6A1C1D6A2C1D6A3C1D6A4C1D6A5C1D6A8C1D6A9C1D6AAC1D6ABC1D6ACC1D6ADC1D6AEC1D6AFC1D6B0C1D6B1C1D6B2C1D6B3C1D6B4C1D6B5C1D6B6C1D6B7C1D6B8C1D6B9C1D6BAC1D6BBC1D6BCC1D6BDC1D6BEC1D6BFC1D6C0C1D6C2C1D6C3C1D6C4C1D6C5C1D6C6C1D6C7C1D6C8C1D6C9C1D6CAC1D6CBC1D6CCC1D6CDC1D6CEC1D6CFC1D6D0C1D6D1C1D6D2C1D6D3C1D6D4C1D6D5C1D6D6C1D6D7C1D6D8C1D6D9C1D6DAC1D6DCC1D6DDC1D6DEC1D6DFC1D6E0C1D6E1C1D6E2C1D6E3C1D6E4C1D6E5C1D6E6C1D6E7C1D6E8C1D6E9C1D6EAC1D6EBC1D6ECC1D6EDC1D6EEC1D6EFC1D6F0C1D6F1C1D6F2C1D6F3C1D6F4C1D6F5C1D6F6C1D6F7C1D6F8C1D6F9C1D6FAC1D6FCC1D6FDC1D6FEC1D6FFC1D700C1D701C1D702C1D703C1D704C1D705C1D706C1D707C1D708C1D709C1D70AC1D70BC1D70CC1D70DC1D70EC1D70FC1D710C1D711C1D712C1D713C1D714C1D716C1D717C1D718C1D719C1D71AC1D71BC1D71CC1D71DC1D71EC1D71FC1D720C1D721C1D722C1D723C"
    \o "1D724C1D725C1D726C1D727C1D728C1D729C1D72AC1D72BC1D72CC1D72DC1D72EC1D72FC1D730C1D731C1D732C1D733C1D734C1D736C1D737C1D738C1D739C1D73AC1D73BC1D73CC1D73DC1D73EC1D73FC1D740C1D741C1D742C1D743C1D744C1D745C1D746C1D747C1D748C1D749C1D74AC1D74BC1D74CC1D74DC1D74EC1D750C1D751C1D752C1D753C1D754C1D755C1D756C1D757C1D758C1D759C1D75AC1D75BC1D75CC1D75DC1D75EC1D75FC1D760C1D761C1D762C1D763C1D764C1D765C1D766C1D767C1D768C1D769C1D76AC1D76BC1D76CC1D76DC1D76EC1D770C1D771C1D772C1D773C1D774C1D775C1D776C1D777C1D778C1D779C1D77AC1D77BC1D77CC1D77DC1D77EC1D77FC1D780C1D781C1D782C1D783C1D784C1D785C1D786C1D787C1D788C1D78AC1D78BC1D78CC1D78DC1D78EC1D78FC1D790C1D791C1D792C1D793C1D794C1D795C1D796C1D797C1D798C1D799C1D79AC1D79BC1D79CC1D79DC1D79EC1D79FC1D7A0C1D7A1C1D7A2C1D7A3C1D7A4C1D7A5C1D7A6C1D7A7C1D7A8C1D7AAC1D7ABC1D7ACC1D7ADC1D7AEC1D7AFC1D7B0C1D7B1C1D7B2C1D7B3C1D7B4C1D7B5C1D7B6C1D7B7C1D7B8C1D7B9C1D7BAC1D7BBC1D7BCC1D7BDC1D7BEC1D7BFC1D7C0C1D7C1C1D7C2C1D7C4C1D7C5C1D7C6C1D7C7C1D7C8C1D7C9C1D7CAC1D7CBC1DA00I1DA01I1DA02I1DA03I"
    \o "1DA04I1DA05I1DA06I1DA07I1DA08I1DA09I1DA0AI1DA0BI1DA0CI1DA0DI1DA0EI1DA0FI1DA10I1DA11I1DA12I1DA13I1DA14I1DA15I1DA16I1DA17I1DA18I1DA19I1DA1AI1DA1BI1DA1CI1DA1DI1DA1EI1DA1FI1DA20I1DA21I1DA22I1DA23I1DA24I1DA25I1DA26I1DA27I1DA28I1DA29I1DA2AI1DA2BI1DA2CI1DA2DI1DA2EI1DA2FI1DA30I1DA31I1DA32I1DA33I1DA34I1DA35I1DA36I1DA3BI1DA3CI1DA3DI1DA3EI1DA3FI1DA40I1DA41I1DA42I1DA43I1DA44I1DA45I1DA46I1DA47I1DA48I1DA49I1DA4AI1DA4BI1DA4CI1DA4DI1DA4EI1DA4FI1DA50I1DA51I1DA52I1DA53I1DA54I1DA55I1DA56I1DA57I1DA58I1DA59I1DA5AI1DA5BI1DA5CI1DA5DI1DA5EI1DA5FI1DA60I1DA61I1DA62I1DA63I1DA64I1DA65I1DA66I1DA67I1DA68I1DA69I1DA6AI1DA6BI1DA6CI1DA75I1DA84I1DA9BI1DA9CI1DA9DI1DA9EI1DA9FI1DAA1I1DAA2I1DAA3I1DAA4I1DAA5I1DAA6I1DAA7I1DAA8I1DAA9I1DAAAI1DAABI1DAACI1DAADI1DAAEI1DAAFI1DF00C1DF01C1DF02C1DF03C1DF04C1DF05C1DF06C1DF07C1DF08C1DF09C1DF0BC1DF0CC1DF0DC1DF0EC1DF0FC1DF10C1DF11C1DF12C1DF13C1DF14C1DF15C1DF16C1DF17C1DF18C1DF19C1DF1AC1DF1BC1DF1CC1DF1DC1DF1EC1E000I1E001I1E002I1E003I1E004I1E005I1E006I1E008I1E009I1E00AI1E00BI1E00CI1E00DI"
    \o "1E00EI1E00FI1E010I1E011I1E012I1E013I1E014I1E015I1E016I1E017I1E018I1E01BI1E01CI1E01DI1E01EI1E01FI1E020I1E021I1E023I1E024I1E026I1E027I1E028I1E029I1E02AI1E130I1E131I1E132I1E133I1E134I1E135I1E136I1E137I1E138I1E139I1E13AI1E13BI1E13CI1E13DI1E2AEI1E2ECI1E2EDI1E2EEI1E2EFI1E8D0I1E8D1I1E8D2I1E8D3I1E8D4I1E8D5I1E8D6I1E900C1E901C1E902C1E903C1E904C1E905C1E906C1E907C1E908C1E909C1E90AC1E90BC1E90CC1E90DC1E90EC1E90FC1E910C1E911C1E912C1E913C1E914C1E915C1E916C1E917C1E918C1E919C1E91AC1E91BC1E91CC1E91DC1E91EC1E91FC1E920C1E921C1E922C1E923C1E924C1E925C1E926C1E927C1E928C1E929C1E92AC1E92BC1E92CC1E92DC1E92EC1E92FC1E930C1E931C1E932C1E933C1E934C1E935C1E936C1E937C1E938C1E939C1E93AC1E93BC1E93CC1E93DC1E93EC1E93FC1E940C1E941C1E942C1E943C1E944I1E945I1E946I1E947I1E948I1E949I1E94AI1E94BI1F130C1F131C1F132C1F133C1F134C1F135C1F136C1F137C1F138C1F139C1F13AC1F13BC1F13CC1F13DC1F13EC1F13FC1F140C1F141C1F142C1F143C1F144C1F145C1F146C1F147C1F148C1F149C1F150C1F151C1F152C1F153C1F154C1F155C1F156C1F157C1F158C1F159C1F15AC1F15BC1F15CC"
    \o "1F15DC1F15EC1F15FC1F160C1F161C1F162C1F163C1F164C1F165C1F166C1F167C1F168C1F169C1F170C1F171C1F172C1F173C1F174C1F175C1F176C1F177C1F178C1F179C1F17AC1F17BC1F17CC1F17DC1F17EC1F17FC1F180C1F181C1F182C1F183C1F184C1F185C1F186C1F187C1F188C1F189C1F3FBI1F3FCI1F3FDI1F3FEI1F3FFIE0001IE0020IE0021IE0022IE0023IE0024IE0025IE0026IE0027IE0028IE0029IE002AIE002BIE002CIE002DIE002EIE002FIE0030IE0031IE0032IE0033IE0034IE0035IE0036IE0037IE0038IE0039IE003AIE003BIE003CIE003DIE003EIE003FIE0040IE0041IE0042IE0043IE0044IE0045IE0046IE0047IE0048IE0049IE004AIE004BIE004CIE004DIE004EIE004FIE0050IE0051IE0052IE0053IE0054IE0055IE0056IE0057IE0058IE0059IE005AIE005BIE005CIE005DIE005EIE005FIE0060IE0061IE0062IE0063IE0064IE0065IE0066IE0067IE0068IE0069IE006AIE006BIE006CIE006DIE006EIE006FIE0070IE0071IE0072IE0073IE0074IE0075IE0076IE0077IE0078IE0079IE007AIE007BIE007CIE007DIE007EIE007FIE0100IE0101IE0102IE0103IE0104IE0105IE0106IE0107IE0108IE0109IE010AIE010BIE010CIE010DIE010EIE010FIE0110IE0111IE0112IE0113IE0114IE0115IE0116IE0117IE0118I"
    \o "E0119IE011AIE011BIE011CIE011DIE011EIE011FIE0120IE0121IE0122IE0123IE0124IE0125IE0126IE0127IE0128IE0129IE012AIE012BIE012CIE012DIE012EIE012FIE0130IE0131IE0132IE0133IE0134IE0135IE0136IE0137IE0138IE0139IE013AIE013BIE013CIE013DIE013EIE013FIE0140IE0141IE0142IE0143IE0144IE0145IE0146IE0147IE0148IE0149IE014AIE014BIE014CIE014DIE014EIE014FIE0150IE0151IE0152IE0153IE0154IE0155IE0156IE0157IE0158IE0159IE015AIE015BIE015CIE015DIE015EIE015FIE0160IE0161IE0162IE0163IE0164IE0165IE0166IE0167IE0168IE0169IE016AIE016BIE016CIE016DIE016EIE016FIE0170IE0171IE0172IE0173IE0174IE0175IE0176IE0177IE0178IE0179IE017AIE017BIE017CIE017DIE017EIE017FIE0180IE0181IE0182IE0183IE0184IE0185IE0186IE0187IE0188IE0189IE018AIE018BIE018CIE018DIE018EIE018FIE0190IE0191IE0192IE0193IE0194IE0195IE0196IE0197IE0198IE0199IE019AIE019BIE019CIE019DIE019EIE019FIE01A0IE01A1IE01A2IE01A3IE01A4IE01A5IE01A6IE01A7IE01A8IE01A9IE01AAIE01ABIE01ACIE01ADIE01AEIE01AFIE01B0IE01B1IE01B2IE01B3IE01B4IE01B5IE01B6IE01B7IE01B8IE01B9IE01BAIE01BBIE01BCIE01BDIE01BEI"
    \o "E01BFIE01C0IE01C1IE01C2IE01C3IE01C4IE01C5IE01C6IE01C7IE01C8IE01C9IE01CAIE01CBIE01CCIE01CDIE01CEIE01CFIE01D0IE01D1IE01D2IE01D3IE01D4IE01D5IE01D6IE01D7IE01D8IE01D9IE01DAIE01DBIE01DCIE01DDIE01DEIE01DFIE01E0IE01E1IE01E2IE01E3IE01E4IE01E5IE01E6IE01E7IE01E8IE01E9IE01EAIE01EBIE01ECIE01EDIE01EEIE01EFI"

\* the decimal digits beyond ASCII that int() reads: ten to a script, from 0
\* to 9
DigitCodes ==
    "00660006610066200663006640066500666006670066800669006F0006F1006F2006F3006F4006F5006F6006F7006F8006F9007C0007C1007C2007C3007C4007C5007C6007C7007C8007C9009660096700968009690096A0096B0096C0096D0096E0096F009E6009E7009E8009E9009EA009EB009EC009ED009EE009EF00A6600A6700A6800A6900A6A00A6B00A6C00A6D00A6E00A6F00AE600AE700AE800AE900AEA00AEB00AEC00AED00AEE00AEF00B6600B6700B6800B6900B6A00B6B00B6C00B6D00B6E00B6F00BE600BE700BE800BE900BEA00BEB00BEC00BED00BEE00BEF00C6600C6700C6800C6900C6A00C6B00C6C00C6D00C6E00C6F00CE600CE700CE800CE900CEA00CEB00CEC00CED00CEE00CEF00D6600D6700D6800D6900D6A00D6B00D6C00D6D00D6E00D6F00DE600DE700DE800DE900DEA00DEB00DEC00DED00DEE00DEF00E5000E5100E5200E5300E5400E5500E5600E5700E5800E5900ED000ED100ED200ED300ED400ED500ED600ED700ED800ED900F2000F2100F2200F2300F2400F2500F2600F2700F2800F290104001041010420104301044010450104601047010480104901090010910109201093010940109501096010970109801099017E0017E1017E2017E3017E4017E5017E6017E7017E8017E901810018110181201813018140181501816018170181801819"
    \o "019460194701948019490194A0194B0194C0194D0194E0194F019D0019D1019D2019D3019D4019D5019D6019D7019D8019D901A8001A8101A8201A8301A8401A8501A8601A8701A8801A8901A9001A9101A9201A9301A9401A9501A9601A9701A9801A9901B5001B5101B5201B5301B5401B5501B5601B5701B5801B5901BB001BB101BB201BB301BB401BB501BB601BB701BB801BB901C4001C4101C4201C4301C4401C4501C4601C4701C4801C4901C5001C5101C5201C5301C5401C5501C5601C5701C5801C590A6200A6210A6220A6230A6240A6250A6260A6270A6280A6290A8D00A8D10A8D20A8D30A8D40A8D50A8D60A8D70A8D80A8D90A9000A9010A9020A9030A9040A9050A9060A9070A9080A9090A9D00A9D10A9D20A9D30A9D40A9D50A9D60A9D70A9D80A9D90A9F00A9F10A9F20A9F30A9F40A9F50A9F60A9F70A9F80A9F90AA500AA510AA520AA530AA540AA550AA560AA570AA580AA590ABF00ABF10ABF20ABF30ABF40ABF50ABF60ABF70ABF80ABF90FF100FF110FF120FF130FF140FF150FF160FF170FF180FF19104A0104A1104A2104A3104A4104A5104A6104A7104A8104A910D3010D3110D3210D3310D3410D3510D3610D3710D3810D39110661106711068110691106A1106B1106C1106D1106E1106F110F0110F1110F2110F3110F4110F5110F6110F7110F8110F9"
    \o "111361113711138111391113A1113B1113C1113D1113E1113F111D0111D1111D2111D3111D4111D5111D6111D7111D8111D9112F0112F1112F2112F3112F4112F5112F6112F7112F8112F911450114511145211453114541145511456114571145811459114D0114D1114D2114D3114D4114D5114D6114D7114D8114D911650116511165211653116541165511656116571165811659116C0116C1116C2116C3116C4116C5116C6116C7116C8116C911730117311173211733117341173511736117371173811739118E0118E1118E2118E3118E4118E5118E6118E7118E8118E91195011951119521195311954119551195611957119581195911C5011C5111C5211C5311C5411C5511C5611C5711C5811C5911D5011D5111D5211D5311D5411D5511D5611D5711D5811D5911DA011DA111DA211DA311DA411DA511DA611DA711DA811DA916A6016A6116A6216A6316A6416A6516A6616A6716A6816A6916AC016AC116AC216AC316AC416AC516AC616AC716AC816AC916B5016B5116B5216B5316B5416B5516B5616B5716B5816B591D7CE1D7CF1D7D01D7D11D7D21D7D31D7D41D7D51D7D61D7D71D7D81D7D91D7DA1D7DB1D7DC1D7DD1D7DE1D7DF1D7E01D7E11D7E21D7E31D7E41D7E51D7E61D7E71D7E81D7E91D7EA1D7EB1D7EC1D7ED1D7EE1D7EF1D7F01D7F11D7F21D7F31D7F41D7F5"
    \o "1D7F61D7F71D7F81D7F91D7FA1D7FB1D7FC1D7FD1D7FE1D7FF1E1401E1411E1421E1431E1441E1451E1461E1471E1481E1491E2F01E2F11E2F21E2F31E2F41E2F51E2F61E2F71E2F81E2F91E9501E9511E9521E9531E9541E9551E9561E9571E9581E9591FBF01FBF11FBF21FBF31FBF41FBF51FBF61FBF71FBF81FBF9"

\* the letters of ASCII, the capital of each 26 places after it
Letters == "abcdefghijklmnopqrstuvwxyzABCDEFGHIJKLMNOPQRSTUVWXYZ"

\* where the record that begins with code stands in a text of records of
\* this width, 0 if there is none
record_index(table, width, code) ==
    IF \E i \in 1..(Len(table) \div width) :
           SubSeq(table, width * (i - 1) + 1, width * (i - 1) + 5) = code
    THEN CHOOSE i \in 1..(Len(table) \div width) :
             SubSeq(table, width * (i - 1) + 1, width * (i - 1) + 5) = code
    ELSE 0

\* the code point a character is written by or, at place i of Latin1, stands
\* for; "" for a string that is no character
code_of(c, i) ==
    IF Len(c) = 6 THEN "0" \o SubSeq(c, 3, 6)
    ELSE IF Len(c) = 7 THEN SubSeq(c, 3, 7)
    ELSE IF i = 0 THEN ""
    ELSE SubSeq(Latin1Codes, 5 * i - 4, 5 * i)

code_point(c) ==
    code_of(c, IF \E i \in 1..Len(Latin1) : SubSeq(Latin1, i, i) = c
               THEN CHOOSE i \in 1..Len(Latin1) : SubSeq(Latin1, i, i) = c
               ELSE 0)

\* the character of a code point, standing at place i of Latin1 or written
\* by its code point
character_at(code, i) ==
    IF i # 0 THEN SubSeq(Latin1, i, i)
    ELSE IF SubSeq(code, 1, 1) = "0" THEN "U+" \o SubSeq(code, 2, 5)
    ELSE "U+" \o code

character(code) == character_at(code, record_index(Latin1Codes, 5, code))

\* the characters that record i of a table of records of this width names
\* after the first, <<c>> when i is 0
record_chars(table, width, i, c) ==
    IF i = 0 THEN <<c>>
    ELSE [k \in {k \in 1..(width \div 5 - 1) :
                    SubSeq(table, width * (i - 1) + 5 * k + 1, width * (i - 1) + 5 * k + 5)
                        # "-----"} |->
             character(SubSeq(table, width * (i - 1) + 5 * k + 1, width * (i - 1) + 5 * k + 5))]

\* what a table makes of the character c
mapped(table, width, c) ==
    record_chars(table, width, record_index(table, width, code_point(c)), c)

RECURSIVE concat(_)
\* ''.join(parts), one half after the other
concat(parts) ==
    IF parts = <<>> THEN <<>>
    ELSE IF Len(parts) = 1 THEN parts[1]
    ELSE concat(SubSeq(parts, 1, Len(parts) \div 2))
             \o concat(SubSeq(parts, Len(parts) \div 2 + 1, Len(parts)))

\* str.upper() and str.lower() of the characters of ASCII
AsciiUpper ==
    [c \in Ascii |->
        IF \E i \in 1..26 : SubSeq(Letters, i, i) = c
        THEN SubSeq(Letters, 26 + (CHOOSE i \in 1..26 : SubSeq(Letters, i, i) = c),
                             26 + (CHOOSE i \in 1..26 : SubSeq(Letters, i, i) = c))
        ELSE c]

AsciiLower ==
    [c \in Ascii |->
        IF \E i \in 27..52 : SubSeq(Letters, i, i) = c
        THEN SubSeq(Letters, (CHOOSE i \in 27..52 : SubSeq(Letters, i, i) = c) - 26,
                             (CHOOSE i \in 27..52 : SubSeq(Letters, i, i) = c) - 26)
        ELSE c]

\* c.upper() for one character, as a str
UpperChar(c) ==
    IF c \in Ascii THEN <<AsciiUpper[c]>> ELSE mapped(UpperText, 20, c)

\* str.upper()
upper(s) == concat([i \in 1..Len(s) |-> UpperChar(s[i])])

\* c.lower() for one character other than capital sigma, as a str
LowerChar(c) ==
    IF c \in Ascii THEN <<AsciiLower[c]>> ELSE mapped(LowerText, 15, c)

\* "C" for a cased character that is not case-ignorable, "I" for a
\* case-ignorable one, "-" for any other
kind_at(i) == IF i = 0 THEN "-" ELSE SubSeq(CaseText, 6 * i, 6 * i)

case_kind(c) == kind_at(record_index(CaseText, 6, code_point(c)))

\* is the capital sigma at place i a final one: a cased character before it
\* and none after it, case-ignorable characters passed over
final_sigma(kinds, i) ==
    /\ \E j \in 1..(i - 1) :
           kinds[j] = "C" /\ \A k \in (j + 1)..(i - 1) : kinds[k] = "I"
    /\ ~\E j \in (i + 1)..Len(kinds) :
           kinds[j] = "C" /\ \A k \in (i + 1)..(j - 1) : kinds[k] = "I"

\* s.lower(), kinds being the kind of each character of s when s holds a
\* capital sigma
lower_with(s, kinds) ==
    concat([i \in 1..Len(s) |->
               IF s[i] # "U+03A3" THEN LowerChar(s[i])
               ELSE IF final_sigma(kinds, i) THEN <<"U+03C2">>
               ELSE <<"U+03C3">>])

\* str.lower()
lower(s) ==
    lower_with(s, IF \E i \in 1..Len(s) : s[i] = "U+03A3"
                  THEN [i \in 1..Len(s) |-> case_kind(s[i])]
                  ELSE <<>>)

\* the part of s from the first to the last of these places
between(s, places) ==
    IF places = {} THEN <<>>
    ELSE SubSeq(s, CHOOSE i \in places : \A j \in 1..(i - 1) : j \notin places,
                   CHOOSE i \in places : \A j \in (i + 1)..Len(s) : j \notin places)

\* str.strip()
strip(s) == between(s, {i \in 1..Len(s) : s[i] \notin Whitespace})

\* str.startswith(prefix)
startswith(s, prefix) ==
    Len(s) >= Len(prefix) /\ SubSeq(s, 1, Len(prefix)) = prefix

(***************************************************************************)
(* ContestRecord                                                           *)
(***************************************************************************)
ContestRecord(c, l, e, m) ==
    [callsign |-> c, locator |-> l, exchange |-> e, comment |-> m]

to_list(r) == <<r.callsign, r.locator, r.exchange, r.comment>>

\* from_list: err is "ValueError" for an empty list, "TypeError" when the
\* dataclass constructor is handed more than four positional fields.
\* A list shorter than four yields cls(data[0], "", ...): only data[0] is used.
from_list(data) ==
    IF Len(data) = 0 THEN [err |-> "ValueError", rec |-> ContestRecord(<<>>, <<>>, <<>>, <<>>)]
    ELSE IF Len(data) > 4 THEN [err |-> "TypeError", rec |-> ContestRecord(<<>>, <<>>, <<>>, <<>>)]
    ELSE IF Len(data) = 4
         THEN [err |-> "none", rec |-> ContestRecord(data[1], data[2], data[3], data[4])]
         ELSE [err |-> "none", rec |-> ContestRecord(data[1], <<>>, <<>>, <<>>)]

\* variant: the fields tested as written, not trimmed
has_more_than_callsign_unstripped(r) ==
    r.locator # <<>> \/ r.exchange # <<>> \/ r.comment # <<>>

has_more_than_callsign(r) ==
    strip(r.locator) # <<>> \/ strip(r.exchange) # <<>> \/ strip(r.comment) # <<>>

\* variant: callsigns compared as written
ContestRecord_eq_case_sensitive(r1, r2) ==
    /\ r1.callsign = r2.callsign
    /\ strip(r1.locator) = strip(r2.locator)
    /\ strip(r1.exchange) = strip(r2.exchange)
    /\ strip(r1.comment) = strip(r2.comment)

\* ContestRecord.__eq__
ContestRecord_eq(r1, r2) ==
    /\ upper(r1.callsign) = upper(r2.callsign)
    /\ strip(r1.locator) = strip(r2.locator)
    /\ strip(r1.exchange) = strip(r2.exchange)
    /\ strip(r1.comment) = strip(r2.comment)

(***************************************************************************)
(* list helpers, with the value equality Python's list methods use         *)
(***************************************************************************)
\* new_record in self.records
list_contains(recs, r) == \E i \in 1..Len(recs) : ContestRecord_eq(recs[i], r)

\* self.records.index(r): position of the first value-equal element
list_index(recs, r) ==
    CHOOSE i \in 1..Len(recs) :
        /\ ContestRecord_eq(recs[i], r)
        /\ \A j \in 1..(i - 1) : ~ContestRecord_eq(recs[j], r)

\* self.records.remove(r): drops the first value-equal element
list_remove(recs, r) ==
    LET i == list_index(recs, r)
    IN  SubSeq(recs, 1, i - 1) \o SubSeq(recs, i + 1, Len(recs))

\* [r for r in self.records if r.callsign.upper() == new_record.callsign.upper()]
RECURSIVE existing_records(_, _)
existing_records(recs, new_record) ==
    IF recs = <<>> THEN <<>>
    ELSE IF upper(Head(recs).callsign) = upper(new_record.callsign)
         THEN <<Head(recs)>> \o existing_records(Tail(recs), new_record)
         ELSE existing_records(Tail(recs), new_record)

(***************************************************************************)
(* ContestLogManager.add_or_merge_record                                   *)
(***************************************************************************)
\* variant: the empty-callsign return left out
is_discarded_filter_only(new_record, filter) ==
    filter /\ ~has_more_than_callsign(new_record)

\* the two early returns: empty callsign, callsign-only filter
is_discarded(new_record, filter) ==
    \/ new_record.callsign = <<>>
    \/ (filter /\ ~has_more_than_callsign(new_record))

\* variant: the incoming callsign taken
merged_record_new_callsign(existing_record, new_record) ==
    ContestRecord(
        new_record.callsign,
        IF strip(new_record.locator) # <<>> THEN new_record.locator ELSE existing_record.locator,
        IF strip(new_record.exchange) # <<>> THEN new_record.exchange ELSE existing_record.exchange,
        IF strip(new_record.comment) # <<>> THEN new_record.comment ELSE existing_record.comment)

merged_record(existing_record, new_record) ==
    ContestRecord(
        existing_record.callsign,
        IF strip(new_record.locator) # <<>> THEN new_record.locator ELSE existing_record.locator,
        IF strip(new_record.exchange) # <<>> THEN new_record.exchange ELSE existing_record.exchange,
        IF strip(new_record.comment) # <<>> THEN new_record.comment ELSE existing_record.comment)

\* variant: duplicates looked for by identical fields
keep_all_identical(recs, new_record) ==
    IF ~\E i \in 1..Len(recs) : recs[i] = new_record
    THEN Append(recs, new_record) ELSE recs

keep_all(recs, new_record) ==
    IF ~list_contains(recs, new_record) THEN Append(recs, new_record) ELSE recs

\* variant: the existing record not removed
keep_recent_no_remove(recs, new_record) == Append(recs, new_record)

\* variant: every record with the callsign removed, not only the first
keep_recent_remove_all(recs, new_record) ==
    Append(SelectSeq(recs, LAMBDA r : upper(r.callsign) # upper(new_record.callsign)),
           new_record)

keep_recent(recs, new_record) ==
    LET existing == existing_records(recs, new_record)
    IN  IF existing # <<>>
        THEN Append(list_remove(recs, existing[1]), new_record)
        ELSE Append(recs, new_record)

\* variant: the merged record added beside the existing one
smart_merge_keeps_both(recs, new_record) ==
    LET existing == existing_records(recs, new_record)
    IN  IF existing # <<>>
        THEN Append(recs, merged_record(existing[1], new_record))
        ELSE Append(recs, new_record)

\* variant: the merged record moved to the end of the list
smart_merge_to_end(recs, new_record) ==
    LET existing == existing_records(recs, new_record)
    IN  IF existing # <<>>
        THEN Append(list_remove(recs, existing[1]),
                    merged_record(existing[1], new_record))
        ELSE Append(recs, new_record)

smart_merge(recs, new_record) ==
    LET existing == existing_records(recs, new_record)
    IN  IF existing # <<>>
        THEN [recs EXCEPT ![list_index(recs, existing[1])] =
                              merged_record(existing[1], new_record)]
        ELSE Append(recs, new_record)

\* the store after add_or_merge_record(new_record)
merge_into(recs, mode, filter, new_record) ==
    IF is_discarded(new_record, filter) THEN recs
    ELSE IF mode = "KEEP_ALL" THEN keep_all(recs, new_record)
    ELSE IF mode = "KEEP_RECENT" THEN keep_recent(recs, new_record)
    ELSE smart_merge(recs, new_record)

(***************************************************************************)
(* The csv module's default ("excel") dialect                              *)
(***************************************************************************)
Delimiter      == ","
QuoteChar      == "\""
LineBreaks     == {"\r", "\n"}
LineTerminator == <<"\r", "\n">>

\* csv.field_size_limit(), which the program leaves at its default: the
\* reader raises on a field of more characters
field_size_limit == 131072

RECURSIVE join_chars(_)
\* f.read(): the text of a file, its lines one after the other
join_chars(lines) ==
    IF lines = <<>> THEN <<>> ELSE Head(lines) \o join_chars(Tail(lines))

\* the characters of cs at the positions in keep, in order
pick(cs, keep) ==
    LET places == SelectSeq([i \in 1..Len(cs) |-> i], LAMBDA i : i \in keep)
    IN  [n \in 1..Len(places) |-> cs[places[n]]]

\* a file opened for reading in text mode: "\r\n" and "\r" are read as "\n"
universal_newlines(raw) ==
    LET kept == pick(raw, {i \in 1..Len(raw) :
                              ~(raw[i] = "\n" /\ i > 1 /\ raw[i - 1] = "\r")})
    IN  [i \in 1..Len(kept) |-> IF kept[i] = "\r" THEN "\n" ELSE kept[i]]

\* f.readlines() on the text read: every line with its "\n", the last one
\* without when the text does not end with one
readlines(text) ==
    LET ends == SelectSeq([i \in 1..Len(text) |-> i],
                          LAMBDA i : text[i] = "\n" \/ i = Len(text))
    IN  [n \in 1..Len(ends) |->
            SubSeq(text, IF n = 1 THEN 1 ELSE ends[n - 1] + 1, ends[n])]

\* every quote character of the field written twice
double_quotes(f) ==
    concat([i \in 1..Len(f) |->
               IF f[i] = QuoteChar THEN <<QuoteChar, QuoteChar>> ELSE <<f[i]>>])

\* csv.writer, QUOTE_MINIMAL: a field is quoted when it holds the delimiter,
\* the quote character or a character of the line terminator
csv_write_field(f) ==
    IF \E i \in 1..Len(f) : f[i] \in {Delimiter, QuoteChar} \cup LineBreaks
    THEN <<QuoteChar>> \o double_quotes(f) \o <<QuoteChar>>
    ELSE f

RECURSIVE csv_join_fields(_)
\* the fields of a row as written, delimiters between them
csv_join_fields(fields) ==
    IF fields = <<>> THEN <<>>
    ELSE IF Len(fields) = 1 THEN csv_write_field(fields[1])
    ELSE csv_write_field(Head(fields)) \o <<Delimiter>> \o csv_join_fields(Tail(fields))

\* csv.writer.writerow without the line terminator: a row of one empty
\* field is written as a pair of quotes
csv_write_row(fields) ==
    IF fields = << <<>> >> THEN <<QuoteChar, QuoteChar>>
    ELSE csv_join_fields(fields)

RECURSIVE csv_writerows(_)
\* csv.writer.writerows: every row followed by the line terminator
csv_writerows(rows) ==
    IF rows = <<>> THEN <<>>
    ELSE csv_write_row(Head(rows)) \o LineTerminator \o csv_writerows(Tail(rows))

\* first position from p on that holds a character of set; Len(cs) + 1 if none
find_first(cs, p, set) ==
    IF \E k \in p..Len(cs) : cs[k] \in set
    THEN CHOOSE k \in p..Len(cs) :
             cs[k] \in set /\ \A j \in p..(k - 1) : cs[j] \notin set
    ELSE Len(cs) + 1

\* length of the run of quote characters that ends at j, inside the quoted
\* field opened at p (p = 0: opened on an earlier line)
quote_run(cs, p, j) ==
    Cardinality({i \in (p + 1)..j : \A k \in i..j : cs[k] = QuoteChar})

\* the quote that closes the quoted field opened at p: the last quote of the
\* first run of odd length (doubled quotes are data); Len(cs) + 1 if none
closing_quote(cs, p) ==
    LET closes(j) == /\ cs[j] = QuoteChar
                     /\ (j = Len(cs) \/ cs[j + 1] # QuoteChar)
                     /\ quote_run(cs, p, j) % 2 = 1
    IN  IF \E j \in (p + 1)..Len(cs) : closes(j)
        THEN CHOOSE j \in (p + 1)..Len(cs) :
                 closes(j) /\ \A i \in (p + 1)..(j - 1) : ~closes(i)
        ELSE Len(cs) + 1

\* the data between the opening quote at p and the closing quote at j: of
\* every doubled quote one is kept
quoted_data(cs, p, j) ==
    pick(cs, {i \in (p + 1)..(j - 1) :
                 cs[i] # QuoteChar \/ quote_run(cs, p, i) % 2 = 0})

\* What the reader has made of the lines so far: the rows returned, the
\* fields of the record being built, whether a quoted field is still open at
\* the end of the line and its data so far, and the error raised.
Reading(rows, row, open, field, err) ==
    [rows |-> rows, row |-> row, open |-> open, field |-> field, err |-> err]

\* the record is complete at the end of the line
csv_row_done(rows, row) == Reading(Append(rows, row), <<>>, FALSE, <<>>, "none")

\* after the line break at the end of a record only line breaks may follow
csv_eat_crnl(line, q, rows, row) ==
    IF \A i \in q..Len(line) : line[i] \in LineBreaks
    THEN csv_row_done(rows, row)
    ELSE Reading(rows, <<>>, FALSE, <<>>, "Error")

RECURSIVE csv_fields(_, _, _, _, _)
\* the reader on one line from position p, one field at a time: carried is
\* the quoted field left open by the line before and its data so far.  A
\* field that grows beyond field_size_limit raises
csv_fields(line, p, rows, row, carried) ==
    LET opens  == ~carried.open /\ p <= Len(line) /\ line[p] = QuoteChar
        inside == carried.open \/ opens
        from   == IF carried.open THEN p - 1 ELSE p
        j      == IF inside THEN closing_quote(line, from) ELSE p - 1
        k      == find_first(line, j + 1, {Delimiter} \cup LineBreaks)
        field  == IF inside
                  THEN carried.field \o quoted_data(line, from, j)
                           \o SubSeq(line, j + 1, k - 1)
                  ELSE SubSeq(line, p, k - 1)
        closed == [open |-> FALSE, field |-> <<>>]
    IN  IF Len(field) > field_size_limit
        THEN Reading(rows, <<>>, FALSE, <<>>, "Error")
        ELSE IF inside /\ j > Len(line)
        THEN Reading(rows, row, TRUE, field, "none")
        ELSE IF k > Len(line) THEN csv_row_done(rows, Append(row, field))
        ELSE IF line[k] = Delimiter
        THEN csv_fields(line, k + 1, rows, Append(row, field), closed)
        ELSE csv_eat_crnl(line, k + 1, rows, Append(row, field))

\* the reader on one line
csv_line(line, so_far) ==
    IF so_far.err # "none" THEN so_far
    ELSE IF so_far.open
    THEN csv_fields(line, 1, so_far.rows, so_far.row,
                    [open |-> TRUE, field |-> so_far.field])
    ELSE IF line = <<>> THEN csv_row_done(so_far.rows, <<>>)
    ELSE IF line[1] \in LineBreaks THEN csv_eat_crnl(line, 2, so_far.rows, <<>>)
    ELSE csv_fields(line, 1, so_far.rows, <<>>, [open |-> FALSE, field |-> <<>>])

RECURSIVE csv_lines(_, _)
csv_lines(lines, so_far) ==
    IF lines = <<>> THEN so_far
    ELSE csv_lines(Tail(lines), csv_line(Head(lines), so_far))

\* csv.reader(lines) read to its end: the rows it returns and the error it
\* raises after them; a quoted field still open at the end of the input is
\* returned as it stands
csv_reader(lines) ==
    LET read == csv_lines(lines, Reading(<<>>, <<>>, FALSE, <<>>, "none"))
    IN  [rows |-> IF read.open THEN Append(read.rows, Append(read.row, read.field))
                  ELSE read.rows,
         err  |-> read.err]

(***************************************************************************)
(* ContestLogManager.save_csl / load_csl                                   *)
(***************************************************************************)
\* HEADER: the banner with VERSION = "0.7" and the column legend, a line
\* break between them
HEADER ==
    <<"#"," ","M","i","n","o","s"," ","C","S","L"," ","U","t","i","l","i","t",
      "y"," ","b","y"," ","G","4","C","T","P"," ","v","0",".","7","\n","#",
      " ","<","C","a","l","l","s","i","g","n",">",","," ","<","L","o","c","a",
      "t","o","r",">",","," ","<","E","x","c","h","a","n","g","e",">",","," ",
      "<","C","o","m","m","e","n","t",">">>

\* the text save_csl writes: HEADER and a line break, then the rows of
\* csv.writer, the file being opened with newline=''
csl_text(recs) ==
    HEADER \o <<"\n">> \o csv_writerows([i \in 1..Len(recs) |-> to_list(recs[i])])

\* [field.strip() for field in row]
strip_fields(row) == [i \in 1..Len(row) |-> strip(row[i])]

\* the first row is ingested only if it exists, is non-empty and its first
\* field does not start with '#'
first_line_is_data(rows) ==
    /\ rows # <<>>
    /\ rows[1] # <<>>
    /\ ~startswith(rows[1][1], <<"#">>)

(***************************************************************************)
(* What a parser does with a file: the records it hands to                 *)
(* add_or_merge_record, in order, the error it raises (or "none") and the  *)
(* values it passes to its progress callback.  A progress value is the     *)
(* exact fraction num / den.                                               *)
(***************************************************************************)
Parsed(submitted, err, progress) ==
    [submitted |-> submitted, err |-> err, progress |-> progress]

Fraction(num, den) == [num |-> num, den |-> den]

\* the rows of the file that load_csl works through: all of them when the
\* first is a data row, all but the first otherwise
data_rows(rows) ==
    IF rows = <<>> THEN <<>>
    ELSE IF first_line_is_data(rows) THEN rows
    ELSE Tail(rows)


\* a row or element the loop passes over without making a record
Skipped == [err |-> "skip", rec |-> ContestRecord(<<>>, <<>>, <<>>, <<>>)]

\* what the loop of load_csl makes of each row: empty rows are passed over,
\* the others go through from_list
csl_made(todo) ==
    [k \in 1..Len(todo) |->
        IF todo[k] = <<>> THEN Skipped ELSE from_list(strip_fields(todo[k]))]

\* the first row or element that raises, Len(made) + 1 if none does
first_failure(made) ==
    LET bad == {k \in 1..Len(made) : made[k].err \notin {"none", "skip"}}
    IN  IF bad = {} THEN Len(made) + 1
        ELSE CHOOSE k \in bad : \A j \in bad : k <= j

\* the records made before row or element stop
made_before(made, stop) ==
    LET kept == SelectSeq(SubSeq(made, 1, stop - 1), LAMBDA m : m.err = "none")
    IN  [k \in 1..Len(kept) |-> kept[k].rec]

\* the error that ends the loop at stop
raised_at(made, stop) ==
    IF stop > Len(made) THEN "none" ELSE made[stop].err

\* what load_csl meets row by row, read being what the reader makes of the
\* file: the records of the data rows, then the error of the reader if it
\* raises one
csl_met(read) ==
    csl_made(data_rows(read.rows))
        \o (IF read.err = "none" THEN <<>>
            ELSE <<[err |-> read.err, rec |-> ContestRecord(<<>>, <<>>, <<>>, <<>>)]>>)

\* variant: nothing handed over unless every row can be made a record
all_or_nothing(made, stop, total_lines) ==
    Parsed(IF stop > Len(made) THEN made_before(made, stop) ELSE <<>>,
           raised_at(made, stop),
           [k \in 1..(stop - 1) |-> Fraction(k * 100, total_lines)])

all_or_nothing_of(made, total_lines) ==
    all_or_nothing(made, first_failure(made), total_lines)

\* variant: load_csl handing over the records of a file only if all its rows
\* can be made records
csl_parse_all_or_nothing(lines) ==
    all_or_nothing_of(csl_met(csv_reader(lines)), Len(lines))

\* the loop of load_csl: the first row from_list rejects ends it; the
\* callback gets processed_lines / total_lines * 100 after each row before
csl_loop(made, stop, total_lines) ==
    Parsed(made_before(made, stop),
           raised_at(made, stop),
           [k \in 1..(stop - 1) |-> Fraction(k * 100, total_lines)])

csl_until_failure(made, total_lines) ==
    csl_loop(made, first_failure(made), total_lines)

\* load_csl up to its calls of add_or_merge_record
csl_parse(lines) ==
    csl_until_failure(csl_met(csv_reader(lines)), Len(lines))

RECURSIVE merge_all(_, _, _, _)
\* add_or_merge_record called on each submitted record in turn
merge_all(submitted, recs, mode, filter) ==
    IF submitted = <<>> THEN recs
    ELSE merge_all(Tail(submitted),
                   merge_into(recs, mode, filter, Head(submitted)),
                   mode, filter)

\* how many of the submitted records pass the discard checks: each of them
\* sets has_unsaved_changes and notifies the observers
passed(submitted, filter) ==
    Cardinality({k \in 1..Len(submitted) : ~is_discarded(submitted[k], filter)})

\* variant: the store emptied before the file's records go in
run_parser_fresh(parsed, recs, mode, filter) ==
    [records  |-> merge_all(parsed.submitted, <<>>, mode, filter),
     err      |-> parsed.err,
     touched  |-> passed(parsed.submitted, filter) > 0,
     passed   |-> passed(parsed.submitted, filter),
     progress |-> parsed.progress]

\* a parser run against the store
run_parser(parsed, recs, mode, filter) ==
    [records  |-> merge_all(parsed.submitted, recs, mode, filter),
     err      |-> parsed.err,
     touched  |-> passed(parsed.submitted, filter) > 0,
     passed   |-> passed(parsed.submitted, filter),
     progress |-> parsed.progress]

\* load_csl on a file: resulting store, the error raised (or "none")
load_csl(lines, recs, mode, filter) ==
    run_parser(csl_parse(lines), recs, mode, filter)

(***************************************************************************)
(* str and list helpers of the EDI and ADIF parsers.  Positions are        *)
(* Python's: the first character is at 0, find returns -1 when there is no *)
(* occurrence.                                                             *)
(***************************************************************************)
Min(a, b) == IF a < b THEN a ELSE b
Max(a, b) == IF a > b THEN a ELSE b

\* s.find(sub, start)
find(s, sub, start) ==
    LET hits == {i \in start..(Len(s) - Len(sub)) :
                    SubSeq(s, i + 1, i + Len(sub)) = sub}
    IN  IF hits = {} THEN -1 ELSE CHOOSE i \in hits : \A j \in hits : i <= j

\* s[a:b], either index possibly negative or past the end
slice(s, a, b) ==
    LET lo == IF a < 0 THEN Max(a + Len(s), 0) ELSE Min(a, Len(s))
        hi == IF b < 0 THEN Max(b + Len(s), 0) ELSE Min(b, Len(s))
    IN  SubSeq(s, lo + 1, hi)

\* s.split(sep) for a one-character separator
split(s, sep) ==
    LET cuts   == {i \in 1..Len(s) : s[i] = sep}
        cut(k) == CHOOSE i \in cuts : Cardinality({j \in cuts : j < i}) = k - 1
        n      == Cardinality(cuts)
    IN  [k \in 1..(n + 1) |->
            SubSeq(s,
                   IF k = 1 THEN 1 ELSE cut(k - 1) + 1,
                   IF k = n + 1 THEN Len(s) ELSE cut(k) - 1)]

\* the value of a decimal digit, of ASCII or beyond; -1 for another character
digit_at(c, i) == IF i = 0 THEN -1 ELSE (i - 1) % 10

digit_value(c) ==
    digit_at(c, IF c \in Ascii
                THEN IF \E i \in 1..10 : SubSeq("0123456789", i, i) = c
                     THEN CHOOSE i \in 1..10 : SubSeq("0123456789", i, i) = c
                     ELSE 0
                ELSE record_index(DigitCodes, 5, code_point(c)))

\* sys.get_int_max_str_digits(), which the program leaves at its default:
\* int() raises on a text of more digits
int_max_str_digits == 4300

RECURSIVE digits_value(_)
\* the number these digits write
digits_value(ds) ==
    IF ds = <<>> THEN 0
    ELSE digits_value(SubSeq(ds, 1, Len(ds) - 1)) * 10 + ds[Len(ds)]

\* the digits from the first that is not 0 on
significant(ds, nonzero) ==
    IF nonzero = {} THEN <<>>
    ELSE SubSeq(ds, CHOOSE i \in nonzero : \A j \in 1..(i - 1) : j \notin nonzero,
                    Len(ds))

\* an integer of Python, which has no largest one: whether it is below 0,
\* and the digits of its magnitude from the first that is not 0 on
Integer(negative, digits) ==
    [negative |-> negative /\ digits # <<>>, digits |-> digits]

\* the value of the digits ds after the sign of t
int_digits(t, signed, ds) ==
    IF Len(ds) > int_max_str_digits
    THEN [err |-> "ValueError", val |-> Integer(FALSE, <<>>)]
    ELSE [err |-> "none",
          val |-> Integer(signed = 1 /\ t[1] = "-",
                          significant(ds, {i \in 1..Len(ds) : ds[i] # 0}))]

\* the number written by t, sign first: values holds the value of each
\* character after the sign, -1 for one that is no digit.  Single underscores
\* between digits are allowed; anything else is a ValueError, and so are
\* more digits than int_max_str_digits
int_of(t, signed, values) ==
    IF /\ values # <<>>
       /\ values[1] >= 0
       /\ values[Len(values)] >= 0
       /\ \A i \in 1..Len(values) :
              \/ values[i] >= 0
              \/ t[i + signed] = "_" /\ values[i - 1] >= 0
    THEN int_digits(t, signed, SelectSeq(values, LAMBDA v : v >= 0))
    ELSE [err |-> "ValueError", val |-> Integer(FALSE, <<>>)]

int_signed(t, signed) ==
    int_of(t, signed, [i \in 1..(Len(t) - signed) |-> digit_value(t[i + signed])])

int_stripped(t) ==
    int_signed(t, IF t # <<>> /\ t[1] \in {"+", "-"} THEN 1 ELSE 0)

\* int(s): surrounding whitespace and one sign allowed, then decimal digits
int(s) == int_stripped(between(s, {i \in 1..Len(s) : s[i] \notin IntWhitespace}))

(***************************************************************************)
(* ContestLogManager.load_edi                                              *)
(***************************************************************************)
RemarksTag    == <<"[", "R", "e", "m", "a", "r", "k", "s", "]">>
QSORecordsTag == <<"[", "Q", "S", "O", "R", "e", "c", "o", "r", "d", "s", ";">>
EndTag        == <<"[", "E", "N", "D", ";">>

\* In the operators of the two passes, lines are the lines of the file as
\* the loops see them, each already stripped.

\* first pass: is in_remarks set when line k is reached
in_remarks(lines, k) ==
    LET marks == {j \in 1..(k - 1) :
                     \/ startswith(lines[j], RemarksTag)
                     \/ startswith(lines[j], QSORecordsTag)}
    IN  /\ marks # {}
        /\ startswith(lines[CHOOSE j \in marks : \A i \in marks : i <= j], RemarksTag)

\* first pass: the lines that put an entry into comments
remark_lines(lines) ==
    {k \in 1..Len(lines) :
        /\ ~startswith(lines[k], RemarksTag)
        /\ ~startswith(lines[k], QSORecordsTag)
        /\ in_remarks(lines, k)
        /\ lines[k] # <<>>
        /\ Len(split(lines[k], ";")) >= 4}

\* comments.get(callsign, ""), remarks being the lines that made an entry
comments_get(lines, remarks, callsign) ==
    LET put == {k \in remarks : strip(split(lines[k], ";")[3]) = callsign}
    IN  IF put = {} THEN <<>>
        ELSE strip(split(lines[CHOOSE k \in put : \A j \in put : j <= k], ";")[4])

\* variant: the second pass never stopped by an [END; line
edi_end_never(lines) == Len(lines) + 1

\* second pass: the line at which the loop breaks, Len(lines) + 1 if none
edi_end(lines) ==
    LET ends == {k \in 1..Len(lines) : startswith(lines[k], EndTag)}
    IN  IF ends = {} THEN Len(lines) + 1
        ELSE CHOOSE k \in ends : \A j \in ends : k <= j

\* second pass: is in_qso_section set when line k is reached
in_qso_section(lines, k) ==
    \E j \in 1..(k - 1) : startswith(lines[j], QSORecordsTag)

\* second pass: the lines that become a record
qso_lines(lines) ==
    {k \in 1..(edi_end(lines) - 1) :
        /\ ~startswith(lines[k], QSORecordsTag)
        /\ in_qso_section(lines, k)
        /\ lines[k] # <<>>
        /\ Len(split(lines[k], ";")) >= 10}

\* variant: the fields taken as they are written
edi_record_as_written(lines, remarks, k) ==
    LET fields == split(lines[k], ";")
    IN  ContestRecord(fields[3], fields[10], fields[9],
                      comments_get(lines, remarks, fields[3]))

\* the record made of QSO line k
edi_record(lines, remarks, k) ==
    LET fields == split(lines[k], ";")
    IN  ContestRecord(strip(fields[3]), strip(fields[10]), strip(fields[9]),
                      comments_get(lines, remarks, strip(fields[3])))

\* min(progress, 100)
at_most_100(progress) ==
    IF progress.num > 100 * progress.den THEN Fraction(100, 1) ELSE progress

\* the values the first pass hands to the callback
edi_first_pass(total_lines) ==
    [k \in 1..total_lines |-> Fraction(k * 100, total_lines * 2)]

\* variant: the second pass counting from 0 again
edi_second_pass_from_zero(total_lines, second) ==
    [k \in 1..second |-> at_most_100(Fraction(k * 100, total_lines * 2))]

\* the values the second pass hands to the callback, up to the line it ends at
edi_second_pass(total_lines, second) ==
    [k \in 1..second |->
        at_most_100(Fraction(50 * (total_lines * 2) + k * 100, total_lines * 2))]

\* load_edi up to its calls of add_or_merge_record
edi_parse(file) ==
    LET lines       == [k \in 1..Len(file) |-> strip(file[k])]
        total_lines == Len(lines)
        remarks     == remark_lines(lines)
        qsos        == qso_lines(lines)
        taken       == SelectSeq([k \in 1..total_lines |-> k], LAMBDA k : k \in qsos)
    IN  Parsed([i \in 1..Len(taken) |-> edi_record(lines, remarks, taken[i])],
               "none",
               edi_first_pass(total_lines)
                   \o edi_second_pass(total_lines, Min(edi_end(lines), total_lines)))

(***************************************************************************)
(* ContestLogManager.load_adif, extract_adif_field                         *)
(***************************************************************************)
EOH == <<"<", "E", "O", "H", ">">>
EOR == <<"<", "E", "O", "R", ">">>

\* s[a:a + n] for an integer n and a in 0..len(s): the end is worked out when
\* n has at most nine digits; with more digits it lies past the end of the
\* text, or so far before its start that the slice is empty
slice_of_length(s, a, n) ==
    IF Len(n.digits) > 9
    THEN IF n.negative THEN <<>> ELSE slice(s, a, Len(s))
    ELSE slice(s, a, IF n.negative THEN a - digits_value(n.digits)
                     ELSE a + digits_value(n.digits))

extract_adif_field(qso, field) ==
    LET field_start == find(upper(qso), <<"<">> \o upper(field), 0)
        field_end   == find(qso, <<">">>, field_start)
        parts       == split(slice(qso, field_start, field_end), ":")
        length      == int(parts[2])
        value_start == field_end + 1
    IN  IF field_start = -1 THEN <<>>
        ELSE IF field_end = -1 THEN <<>>
        ELSE IF Len(parts) < 2 THEN <<>>
        ELSE IF length.err # "none" THEN <<>>
        ELSE strip(slice_of_length(qso, value_start, length.val))

\* the record made of the text of one QSO
adif_record(qso) ==
    ContestRecord(extract_adif_field(qso, <<"C", "A", "L", "L">>),
                  extract_adif_field(qso, <<"G", "R", "I", "D", "S", "Q", "U", "A", "R", "E">>),
                  extract_adif_field(qso, <<"Q", "T", "H">>),
                  extract_adif_field(qso, <<"C", "O", "M", "M", "E", "N", "T">>))

RECURSIVE adif_qsos(_, _, _, _)
\* the while loop of load_adif: qsos is what is left of the text,
\* processed_length what was consumed, done what was parsed so far
adif_qsos(qsos, processed_length, total_length, done) ==
    LET eor_index == find(qsos, EOR, 0)
        qso       == strip(slice(qsos, 0, eor_index))
        consumed  == processed_length + eor_index + 5
        record    == adif_record(qso)
    IN  IF strip(qsos) = <<>> \/ eor_index = -1 THEN done
        ELSE adif_qsos(strip(slice(qsos, eor_index + 5, Len(qsos))),
                       consumed, total_length,
                       Parsed(IF record.callsign # <<>>
                              THEN Append(done.submitted, record)
                              ELSE done.submitted,
                              "none",
                              Append(done.progress,
                                     at_most_100(Fraction(consumed * 100,
                                                          total_length)))))

\* load_adif up to its calls of add_or_merge_record; the file is read whole
adif_parse(lines) ==
    LET content == join_chars(lines)
        eoh     == find(content, EOH, 0)
        qsos    == IF eoh = -1 THEN content
                   ELSE slice(content, eoh + 5, Len(content))
    IN  adif_qsos(qsos, 0, Len(qsos), Parsed(<<>>, "none", <<>>))

(***************************************************************************)
(* ContestLogManager.load_minos.  A Minos file is taken as what            *)
(* ElementTree makes of it: whether the text holds '<stream:stream',       *)
(* whether the XML from there on parses, and the iq elements of the tree   *)
(* in document order.  Of an iq, methodName is the text of                 *)
(* query/methodCall/methodName ("" when one of the three is missing),      *)
(* struct whether params/param/value/struct is there, and the five         *)
(* members the loader reads are each absent, without text, or a text.      *)
(***************************************************************************)
Absent  == [has |-> "absent", text |-> <<>>]
NoText  == [has |-> "None", text |-> <<>>]
Text(s) == [has |-> "text", text |-> s]

\* a dictionary value taken as a condition
truthy(value) == value.has = "text" /\ value.text # <<>>

\* qso_data.get(name, '').strip()
get_stripped(value) ==
    IF value.has = "None" THEN [err |-> "AttributeError", text |-> <<>>]
    ELSE [err |-> "none", text |-> strip(value.text)]

\* " | ".join(comments)
minos_comment(qso_data) ==
    LET tx == IF truthy(qso_data.commentsTx) THEN <<qso_data.commentsTx.text>> ELSE <<>>
        rx == IF truthy(qso_data.commentsRx) /\ qso_data.commentsRx # qso_data.commentsTx
              THEN <<qso_data.commentsRx.text>> ELSE <<>>
        comments == tx \o rx
    IN  IF Len(comments) = 2
        THEN comments[1] \o <<" ", "|", " ">> \o comments[2]
        ELSE IF Len(comments) = 1 THEN comments[1]
        ELSE <<>>

\* one iq element: skipped, made into a record, or failing
minos_iq(iq) ==
    LET blank    == ContestRecord(<<>>, <<>>, <<>>, <<>>)
        callsign == get_stripped(iq.qso_data.callRx)
        locator  == get_stripped(iq.qso_data.locRx)
        exchange == get_stripped(iq.qso_data.exchangeRx)
    IN  IF iq.methodName # "MinosLogQSO" \/ ~iq.struct \/ ~truthy(iq.qso_data.callRx)
        THEN Skipped
        ELSE IF locator.err # "none" \/ exchange.err # "none"
        THEN [err |-> "IOError", rec |-> blank]
        ELSE [err |-> "none",
              rec |-> ContestRecord(callsign.text, locator.text, exchange.text,
                                    minos_comment(iq.qso_data))]

\* variant: a file without stream element or with broken XML read as empty
minos_parse_lenient(file) ==
    Parsed(<<>>, "none", <<>>)

\* the loop over the iq elements: the callback is called for an element
\* before it is looked at, so also for the one that raises
minos_loop(made, stop) ==
    Parsed(made_before(made, stop),
           raised_at(made, stop),
           [k \in 1..Min(stop, Len(made)) |->
               at_most_100(Fraction(k * 100, Len(made)))])

minos_until_failure(made) == minos_loop(made, first_failure(made))

\* load_minos up to its calls of add_or_merge_record; every exception but
\* FileNotFoundError and ParseError leaves as IOError
minos_parse(file) ==
    IF ~file.stream_start \/ ~file.well_formed \/ Len(file.iqs) = 0
    THEN Parsed(<<>>, "IOError", <<>>)
    ELSE minos_until_failure([k \in 1..Len(file.iqs) |-> minos_iq(file.iqs[k])])

(***************************************************************************)
(* State                                                                   *)
(***************************************************************************)
VARIABLES
    records,               \* self.records
    current_file,          \* self.current_file: <<>> for None, else <<name, suffix>>
    merge_mode,            \* self.merge_mode
    remove_callsign_only,  \* self.remove_callsign_only
    observers,             \* self._observers, in registration order
    has_unsaved_changes,   \* self.has_unsaved_changes
    last                   \* the last call: the method that did the work (op), the
                           \* method the caller invoked (entry), argument, error
                           \* and result,
                           \* the store, flag and current file before it, the
                           \* observers it invoked and the progress values it
                           \* delivered, in order

vars == <<records, current_file, merge_mode, remove_callsign_only, observers,
          has_unsaved_changes, last>>

\* what the setters and the pure operations leave alone
manager == <<records, current_file, merge_mode, remove_callsign_only, observers,
             has_unsaved_changes>>

MergeMode == {"KEEP_ALL", "KEEP_RECENT", "SMART_MERGE"}

SUPPORTED_FORMATS ==
    { <<".", "c", "s", "l">>, <<".", "e", "d", "i">>, <<".", "a", "d", "i">>,
      <<".", "a", "d", "i", "f">>, <<".", "m", "i", "n", "o", "s">> }

\* the record of a call made in the current state
Call(op, arg, err) ==
    [op |-> op, entry |-> op, arg |-> arg, err |-> err, res |-> <<>>,
     pre |-> records, dirty0 |-> has_unsaved_changes, file0 |-> current_file,
     notified |-> <<>>, progress |-> <<>>, submitted |-> <<>>]

RECURSIVE notify_observers_newest_first(_, _)
\* variant: the observers invoked from the last registered to the first
notify_observers_newest_first(obs, n) ==
    IF n = 0 THEN <<>>
    ELSE [i \in 1..Len(obs) |-> obs[Len(obs) + 1 - i]]
             \o notify_observers_newest_first(obs, n - 1)

RECURSIVE notify_observers(_, _)
\* the observers invoked by n calls of notify_observers, in order
notify_observers(obs, n) ==
    IF n = 0 THEN <<>> ELSE obs \o notify_observers(obs, n - 1)

\* ContestLogManager.__init__
Init ==
    /\ records = <<>>
    /\ current_file = <<>>
    /\ merge_mode = "KEEP_ALL"
    /\ remove_callsign_only = FALSE
    /\ observers = <<>>
    /\ has_unsaved_changes = FALSE
    /\ last = [op |-> "init", entry |-> "init", arg |-> <<>>, err |-> "none", res |-> <<>>,
               pre |-> <<>>, dirty0 |-> FALSE, file0 |-> <<>>,
               notified |-> <<>>, progress |-> <<>>, submitted |-> <<>>]

(***************************************************************************)
(* Operations                                                              *)
(***************************************************************************)
\* variant: flag and notification only when the list changed
AddOrMergeRecord_quiet_when_same(new_record) ==
    /\ Len(merge_into(records, merge_mode, remove_callsign_only, new_record)) <= MaxRecords
    /\ records' = merge_into(records, merge_mode, remove_callsign_only, new_record)
    /\ has_unsaved_changes' =
           IF records' = records THEN has_unsaved_changes ELSE TRUE
    /\ last' = [Call("add_or_merge_record", new_record, "none") EXCEPT
                   !.notified =
                       IF records' = records
                       THEN <<>> ELSE notify_observers(observers, 1)]
    /\ UNCHANGED <<current_file, merge_mode, remove_callsign_only, observers>>

AddOrMergeRecord(new_record) ==
    /\ Len(merge_into(records, merge_mode, remove_callsign_only, new_record)) <= MaxRecords
    /\ records' = merge_into(records, merge_mode, remove_callsign_only, new_record)
    /\ has_unsaved_changes' =
           IF is_discarded(new_record, remove_callsign_only)
           THEN has_unsaved_changes ELSE TRUE
    /\ last' = [Call("add_or_merge_record", new_record, "none") EXCEPT
                   !.notified =
                       IF is_discarded(new_record, remove_callsign_only)
                       THEN <<>> ELSE notify_observers(observers, 1)]
    /\ UNCHANGED <<current_file, merge_mode, remove_callsign_only, observers>>

\* variant: the change of policy counted as an unsaved change
SetMergeMode_marks_dirty(mode) ==
    /\ merge_mode' = mode
    /\ has_unsaved_changes' = TRUE
    /\ last' = Call("set_merge_mode", mode, "none")
    /\ UNCHANGED <<records, current_file, remove_callsign_only, observers>>

SetMergeMode(mode) ==
    /\ merge_mode' = mode
    /\ last' = Call("set_merge_mode", mode, "none")
    /\ UNCHANGED <<records, current_file, remove_callsign_only, observers,
                   has_unsaved_changes>>

SetRemoveCallsignOnly(value) ==
    /\ remove_callsign_only' = value
    /\ last' = Call("set_remove_callsign_only", value, "none")
    /\ UNCHANGED <<records, current_file, merge_mode, observers,
                   has_unsaved_changes>>

\* add_observer: the callback is appended, whether registered before or not
AddObserver(callback) ==
    /\ Len(observers) < MaxObservers
    /\ observers' = Append(observers, callback)
    /\ last' = Call("add_observer", callback, "none")
    /\ UNCHANGED <<records, current_file, merge_mode, remove_callsign_only,
                   has_unsaved_changes>>

\* variant: the flag set whether or not there were records
Reset_always_dirty ==
    /\ has_unsaved_changes' = TRUE
    /\ records' = <<>>
    /\ last' = [Call("reset", <<>>, "none") EXCEPT
                   !.notified = notify_observers(observers, 1)]
    /\ UNCHANGED <<current_file, merge_mode, remove_callsign_only, observers>>

Reset ==
    /\ has_unsaved_changes' = IF records # <<>> THEN TRUE ELSE has_unsaved_changes
    /\ records' = <<>>
    /\ last' = [Call("reset", <<>>, "none") EXCEPT
                   !.notified = notify_observers(observers, 1)]
    /\ UNCHANGED <<current_file, merge_mode, remove_callsign_only, observers>>

\* variant: the file written, nobody told
SaveCsl_silent ==
    /\ has_unsaved_changes' = FALSE
    /\ last' = [Call("save_csl", <<>>, "none") EXCEPT !.res = csl_text(records)]
    /\ UNCHANGED <<records, current_file, merge_mode, remove_callsign_only, observers>>

\* save_csl, the file opened and written: res is the text of the file
SaveCsl ==
    /\ has_unsaved_changes' = FALSE
    /\ last' = [Call("save_csl", <<>>, "none") EXCEPT
                   !.res = csl_text(records),
                   !.notified = notify_observers(observers, 1)]
    /\ UNCHANGED <<records, current_file, merge_mode, remove_callsign_only, observers>>

\* variant: the flag cleared before the file is opened
SaveCslFails_flag_first ==
    /\ has_unsaved_changes' = FALSE
    /\ last' = Call("save_csl", <<>>, "IOError")
    /\ UNCHANGED <<records, current_file, merge_mode, remove_callsign_only, observers>>

\* save_csl, open() or a write failing: IOError
SaveCslFails ==
    /\ last' = Call("save_csl", <<>>, "IOError")
    /\ UNCHANGED manager

\* bounded_progress: what load_file lets through to the caller's callback
bounded_progress(percentage) ==
    IF percentage.num < 0 THEN Fraction(0, 1)
    ELSE IF percentage.num > 100 * percentage.den THEN Fraction(100, 1)
    ELSE percentage

\* the values the caller's callback receives of those a parser reports
delivered(progress) ==
    [k \in 1..Len(progress) |-> bounded_progress(progress[k])]

\* a path handed to load_file
Path(name, suffix, exists) == [name |-> name, suffix |-> suffix, exists |-> exists]

\* the loader load_file picks for an extension
parser_name(extension) ==
    CASE extension = <<".", "c", "s", "l">> -> "load_csl"
      [] extension = <<".", "e", "d", "i">> -> "load_edi"
      [] extension \in {<<".", "a", "d", "i">>, <<".", "a", "d", "i", "f">>} ->
             "load_adif"
      [] extension = <<".", "m", "i", "n", "o", "s">> -> "load_minos"

\* a loader run on the content of a file, up to its calls of
\* add_or_merge_record
parse(loader, content) ==
    CASE loader = "load_csl" -> csl_parse(content)
      [] loader = "load_edi" -> edi_parse(content)
      [] loader = "load_adif" -> adif_parse(content)
      [] loader = "load_minos" -> minos_parse(content)

\* the loader load_file picks for an extension, run on the file's content
parse_file(extension, content) ==
    parse(parser_name(extension), content)

\* variant: current_file assigned before the path is looked at
LoadRejected_file_first(path, content, err) ==
    /\ current_file' = <<path.name, path.suffix>>
    /\ last' = [Call("load_file", content, err) EXCEPT !.res = path]
    /\ UNCHANGED <<records, merge_mode, remove_callsign_only, observers,
                   has_unsaved_changes>>

\* load_file raising before a parser is picked
LoadRejected(path, content, err) ==
    /\ last' = [Call("load_file", content, err) EXCEPT !.res = path]
    /\ UNCHANGED manager

\* load_file(filepath, progress_callback) on a path and, if it exists, the
\* content found there
LoadFile(path, content) ==
    IF ~path.exists
    THEN LoadRejected(path, content, "FileNotFoundError")
    ELSE \E extension \in {lower(path.suffix)} :
         IF extension \notin SUPPORTED_FORMATS
         THEN LoadRejected(path, content, "ValueError")
         ELSE
         \E parsed \in {parse_file(extension, content)} :
         \E run \in {run_parser(parsed, records, merge_mode, remove_callsign_only)} :
             /\ Len(run.records) <= MaxRecords
             /\ records' = run.records
             /\ current_file' =
                    IF run.err = "none" THEN <<path.name, path.suffix>> ELSE current_file
             /\ has_unsaved_changes' =
                    IF run.err = "none" \/ run.touched THEN TRUE ELSE has_unsaved_changes
             /\ last' = [Call(parser_name(extension), content, run.err) EXCEPT
                            !.entry = "load_file",
                            !.res = path,
                            !.notified =
                                notify_observers(
                                    observers,
                                    run.passed + IF run.err = "none" THEN 1 ELSE 0),
                            !.progress = delivered(run.progress),
                            !.submitted = parsed.submitted]
             /\ UNCHANGED <<merge_mode, remove_callsign_only, observers>>

\* load_file on a .csl file holding these lines
LoadFileCsl(lines) ==
    LoadFile(Path("log", <<".", "c", "s", "l">>, TRUE), lines)

\* load_file on the file save_csl has just written
LoadSaved ==
    /\ last.op = "save_csl"
    /\ last.err = "none"
    /\ LoadFileCsl(readlines(universal_newlines(last.res)))

\* a loader called by the application itself, on a path and, if it exists,
\* the content found there: nothing looks at the extension, the progress
\* values go to the caller's callback as they are, and neither current_file
\* nor has_unsaved_changes is assigned, nor the observers notified, beyond
\* what add_or_merge_record does
Load(loader, path, content) ==
    IF ~path.exists
    THEN /\ last' = [Call(loader, content, "FileNotFoundError") EXCEPT !.res = path]
         /\ UNCHANGED manager
    ELSE \E parsed \in {parse(loader, content)} :
         \E run \in {run_parser(parsed, records, merge_mode, remove_callsign_only)} :
             /\ Len(run.records) <= MaxRecords
             /\ records' = run.records
             /\ has_unsaved_changes' =
                    IF run.touched THEN TRUE ELSE has_unsaved_changes
             /\ last' = [Call(loader, content, run.err) EXCEPT
                            !.res = path,
                            !.notified = notify_observers(observers, run.passed),
                            !.progress = run.progress,
                            !.submitted = parsed.submitted]
             /\ UNCHANGED <<current_file, merge_mode, remove_callsign_only, observers>>

\* load_csl(filename, progress_callback)
LoadCsl(path, content) == Load("load_csl", path, content)

\* load_edi(filename, progress_callback)
LoadEdi(path, content) == Load("load_edi", path, content)

\* load_adif(filename, progress_callback)
LoadAdif(path, content) == Load("load_adif", path, content)

\* load_minos(filename, progress_callback)
LoadMinos(path, content) == Load("load_minos", path, content)

\* notify_observers()
NotifyObservers ==
    /\ last' = [Call("notify_observers", <<>>, "none") EXCEPT
                   !.notified = notify_observers(observers, 1)]
    /\ UNCHANGED manager

(***************************************************************************)
(* ContestRecord's pure operations, applied to drawn inputs                *)
(***************************************************************************)
\* ContestRecord.from_list(data).to_list(), on the drawn list
FromListToList ==
    /\ last.op = "draw_list"
    /\ LET made == from_list(last.arg)
       IN  last' = [last EXCEPT
                        !.op = "from_list",
                        !.err = made.err,
                        !.res = IF made.err = "none" THEN to_list(made.rec) ELSE <<>>]
    /\ UNCHANGED manager

\* r1 == r2, on the drawn pair
RecordEq ==
    /\ last.op = "draw_pair"
    /\ last' = [last EXCEPT
                    !.op = "eq",
                    !.res = ContestRecord_eq(last.arg[1], last.arg[2])]
    /\ UNCHANGED manager

(***************************************************************************)
(* Inputs                                                                  *)
(***************************************************************************)
\* field lists of up to MaxListLen strings
ListFields == {<<>>, <<"a">>, <<" ", "b">>}
FieldLists == UNION {[1..n -> ListFields] : n \in 0..MaxListLen}

\* records compared by ==
EqRecs ==
    {ContestRecord(c, l, e, m) :
        c \in {<<"a">>, <<"A">>, <<"b">>, <<"é">>, <<"É">>},
        l \in {<<>>, <<" ">>, <<"x">>, <<"x", " ">>, <<"\r", "x">>, <<"X">>},
        e \in {<<>>, <<"y">>},
        m \in {<<>>, <<" ", "z">>}}

\* records handed to add_or_merge_record when the merge policies are exercised
MergeRecs ==
    { ContestRecord(<<"a">>, <<"x">>, <<>>, <<>>),
      ContestRecord(<<"A">>, <<" ", "x">>, <<>>, <<>>),
      ContestRecord(<<"A">>, <<>>, <<"y">>, <<" ">>),
      ContestRecord(<<"a">>, <<"w">>, <<>>, <<"z">>),
      ContestRecord(<<"a">>, <<>>, <<>>, <<>>),
      ContestRecord(<<"A">>, <<" ">>, <<>>, <<"\t">>),
      ContestRecord(<<"b">>, <<"w">>, <<"y">>, <<"z">>),
      ContestRecord(<<>>, <<"x">>, <<>>, <<>>),
      ContestRecord(<<" ">>, <<"x">>, <<>>, <<>>),
      ContestRecord(<<" ">>, <<>>, <<>>, <<>>) }

\* records handed to add_or_merge_record next to file loads and saves
Recs ==
    { ContestRecord(<<"a">>, <<"x">>, <<>>, <<>>),
      ContestRecord(<<"A">>, <<>>, <<>>, <<>>),
      ContestRecord(<<"b">>, <<",">>, <<>>, <<"\"">>),
      ContestRecord(<<>>, <<"x">>, <<>>, <<>>) }

\* a file that ends with a line break: every line has its "\n"
Terminated(lines) == [i \in 1..Len(lines) |-> lines[i] \o <<"\n">>]

\* a file that does not: its last line has none
Unterminated(lines) ==
    [i \in 1..Len(lines) |-> IF i < Len(lines) THEN lines[i] \o <<"\n">> ELSE lines[i]]

\* .csl files offered to load_file
FileLegend  == Terminated(<< <<"#", "h">>, <<"#", "l">>, <<"a", ",", "x", ",", ",">> >>)
FileNoHead  == Unterminated(<< <<"a", ",", " ", "x", ",", ",">>, <<>>, <<" ", ",", "w">> >>)
FileTooWide == Terminated(<< <<"#", "h">>, <<"A", ",", ",", ",">>, <<"a", ",", "b", ",", "c", ",", "d", ",", "e">> >>)
FileBlank   == Terminated(<< <<>>, <<",", "x", ",", ",">> >>)
Files == {FileLegend, FileNoHead, FileTooWide, FileBlank, <<>>}

\* callbacks handed to add_observer
Callbacks == {"update_display", "other_view"}

\* records handed to add_or_merge_record while observers are registered
NotifyRecs ==
    { ContestRecord(<<"a">>, <<"x">>, <<>>, <<>>),
      ContestRecord(<<"A">>, <<>>, <<>>, <<>>),
      ContestRecord(<<>>, <<"x">>, <<>>, <<>>) }

\* a .csl file whose third row has a field too many; its second row is the
\* first written with blanks
FileBreaks ==
    Terminated(<< <<"a", ",", "l", ",", "e", ",">>,
                  <<"a", " ", ",", "l", ",", " ", "e", ",">>,
                  <<"b", ",", ",", ",", ",">> >>)

\* a .csl file of two rows with an empty line between them
FileTwoRows ==
    Terminated(<< <<"a", ",", "l", ",", "e", ",">>, <<>>, <<"b", ",", ",", ",">> >>)

\* a .csl file whose second row has a field of more than field_size_limit
\* characters
OverLong(row) ==
    << row \o <<"\n">>,
       <<"b", ",">> \o [i \in 1..(field_size_limit + 1) |-> "x"] \o <<",", ",", "\n">>,
       <<"c", ",", "x", ",", ",", "\n">> >>

\* two such files, the first row of each being one of another file
FileOverLong    == OverLong(<<"a", ",", "x", ",", ",">>)
FileOverLongLog == OverLong(<<"a", ",", "l", ",", "e", ",">>)

\* an .edi file with a QSO without a callsign and one of a
FileEdiBlank ==
    Terminated(
    << <<"[", "Q", "S", "O", "R", "e", "c", "o", "r", "d", "s", ";", "1", "]">>,
       <<";", ";", " ", ";", ";", ";", ";", ";", ";", ";", "x">>,
       <<";", ";", "a", ";", ";", ";", ";", ";", ";", ";", "x">> >>)

\* an .adi file with a QSO whose callsign is a blank and one of a
FileAdifBlank ==
    Unterminated(
    << <<"<", "C", "A", "L", "L", ":", "1", ">", " ", "<", "G", "R", "I", "D", "S", "Q", "U", "A", "R", "E", ":", "1", ">", "x", "<", "E", "O", "R", ">">>,
       <<"<", "C", "A", "L", "L", ":", "1", ">", "a", "<", "G", "R", "I", "D", "S", "Q", "U", "A", "R", "E", ":", "1", ">", "x", "<", "E", "O", "R", ">">> >>)

\* an .edi file: a remark for a, one QSO, and a QSO line after [END;
FileEdi ==
    Terminated(
    << <<"[", "R", "e", "m", "a", "r", "k", "s", "]">>,
       <<";", ";", "a", ";", "h", "i">>,
       <<"[", "Q", "S", "O", "R", "e", "c", "o", "r", "d", "s", ";", "1", "]">>,
       <<"0", ";", "1", ";", "a", " ", ";", "3", ";", "4", ";", "5", ";", "6", ";", "7", ";", "e", ";", "l">>,
       <<"[", "E", "N", "D", ";", "]">>,
       <<"0", ";", "1", ";", "b", ";", "3", ";", "4", ";", "5", ";", "6", ";", "7", ";", ";">> >>)

\* an .adi file: a header, two QSOs and text without <EOR> after them
FileAdif ==
    Unterminated(
    << <<"h", "<", "E", "O", "H", ">">>,
       <<"<", "C", "A", "L", "L", ":", "1", ">", "a", "<", "Q", "T", "H", ":", "1", ">", "e", "<", "G", "R", "I", "D", "S", "Q", "U", "A", "R", "E", ":", "1", ">", "l", "<", "E", "O", "R", ">">>,
       <<"<", "c", "a", "l", "l", ":", "1", ">", "b", "<", "E", "O", "R", ">", "x">> >>)

\* lines of an .edi file, each with its line break: the section markers, two remarks on the callsign
\* a (four fields each), a QSO of a with blanks around field 2, and a QSO of
\* b with empty exchange and locator
EdiLines ==
    {line \o <<"\n">> : line \in
    { <<"[", "R", "e", "m", "a", "r", "k", "s", "]">>,
      <<";", ";", " ", "a", ";", "h", "i">>,
      <<";", ";", "a", ";", "y", "o", " ">>,
      <<"[", "Q", "S", "O", "R", "e", "c", "o", "r", "d", "s", ";", "1", "]">>,
      <<";", ";", "a", " ", ";", ";", ";", ";", ";", ";", "e", ";", "l">>,
      <<"[", "E", "N", "D", ";", "]">>,
      <<";", ";", "b", ";", ";", ";", ";", ";", ";", ";">> }}

\* the .edi files of at most MaxEdiLines of these lines
EdiFiles == UNION {[1..n -> EdiLines] : n \in 0..MaxEdiLines}

\* pieces of an .adi file: the two markers, a CALL tag, one written in lower
\* case with a blank before its value, a tag whose name begins with CALL, a
\* COMMENT tag with a type, a CALL tag whose length is no number, and a
\* COMMENT tag cut short
AdifChunks ==
    { <<"<", "E", "O", "H", ">">>,
      <<"<", "E", "O", "R", ">">>,
      <<"<", "C", "A", "L", "L", ":", "1", ">", "a">>,
      <<"<", "c", "a", "l", "l", ":", "2", ">", " ", "b">>,
      <<"<", "C", "A", "L", "L", "S", "I", "G", "N", ":", "1", ">", "x">>,
      <<"<", "C", "O", "M", "M", "E", "N", "T", ":", "2", ":", "S", ">", "h", "i">>,
      <<"<", "C", "A", "L", "L", ":", "x", ">">>,
      <<"<", "C", "O", "M", "M", "E", "N", "T">> }

\* the .adi files of one line made of at most MaxAdifChunks of these pieces
AdifFiles ==
    {IF chunks = <<>> THEN <<>> ELSE <<concat(chunks)>> :
        chunks \in UNION {[1..n -> AdifChunks] : n \in 0..MaxAdifChunks}}

\* an .adi file whose QTH tag has a length of int_max_str_digits + 1 digits
FileAdifLongLength ==
    << <<"<", "C", "A", "L", "L", ":", "1", ">", "a", "<", "Q", "T", "H", ":">>
           \o [i \in 1..(int_max_str_digits + 1) |-> "1"]
           \o <<">", "e", "<", "E", "O", "R", ">">> >>

\* the field names load_adif asks for that the properties speak of
AdifNames == { <<"C", "A", "L", "L">>, <<"C", "O", "M", "M", "E", "N", "T">> }

\* members of a MinosLogQSO struct
QsoData(callRx, locRx, exchangeRx) ==
    [callRx |-> callRx, locRx |-> locRx, exchangeRx |-> exchangeRx,
     commentsTx |-> Absent, commentsRx |-> Absent]

IqQso(qso_data) == [methodName |-> "MinosLogQSO", struct |-> TRUE, qso_data |-> qso_data]

\* an iq of another kind
IqOther ==
    [methodName |-> "MinosLogComment", struct |-> TRUE,
     qso_data |-> QsoData(Absent, Absent, Absent)]

Minos(stream_start, well_formed, iqs) ==
    [stream_start |-> stream_start, well_formed |-> well_formed, iqs |-> iqs]

\* .minos files: without '<stream:stream'; not well-formed; without any iq;
\* with iqs of other kinds only; with a QSO whose callRx has no text; with a
\* QSO between other iqs; with a QSO whose callRx is a blank and one of a;
\* with a QSO followed by one whose locRx has no text
MinosNoStream  == Minos(FALSE, TRUE, <<>>)
MinosMalformed == Minos(TRUE, FALSE, <<>>)
MinosNoIq      == Minos(TRUE, TRUE, <<>>)
MinosOtherOnly == Minos(TRUE, TRUE, <<IqOther>>)
MinosBlankCall == Minos(TRUE, TRUE, <<IqQso(QsoData(NoText, Text(<<"l">>), Absent)), IqOther>>)
MinosOneQso    == Minos(TRUE, TRUE, <<IqOther, IqQso(QsoData(Text(<<"b">>), Absent, Absent)), IqOther>>)
MinosSpaceCall == Minos(TRUE, TRUE, <<IqQso(QsoData(Text(<<" ">>), Text(<<"x">>), Absent)),
                                      IqQso(QsoData(Text(<<"a">>), Text(<<"x">>), Absent))>>)
MinosBreaks    == Minos(TRUE, TRUE, <<IqQso(QsoData(Text(<<"a">>), Text(<<"l">>), Text(<<"e">>))),
                                      IqQso(QsoData(Text(<<"b">>), NoText, Absent)),
                                      IqQso(QsoData(Text(<<"c">>), Absent, Absent))>>)

MinosFiles ==
    {MinosNoStream, MinosMalformed, MinosNoIq, MinosOtherOnly, MinosBlankCall,
     MinosOneQso, MinosBreaks}

Suffix(letters) == <<".">> \o letters

\* what load_file is called on: a path and the content found there
Loads ==
    { <<Path("gone", Suffix(<<"c", "s", "l">>), FALSE), <<>>>>,
      <<Path("notes", Suffix(<<"t", "x", "t">>), TRUE), FileBreaks>>,
      <<Path("log", Suffix(<<"C", "S", "L">>), TRUE), FileBreaks>>,
      <<Path("log", Suffix(<<"c", "s", "l">>), TRUE), FileTwoRows>>,
      <<Path("log", Suffix(<<"e", "d", "i">>), TRUE), FileEdi>>,
      <<Path("log", Suffix(<<"a", "d", "i">>), TRUE), FileAdif>> }
    \cup {<<Path("log", Suffix(<<"m", "i", "n", "o", "s">>), TRUE), f>> : f \in MinosFiles}

\* what the loaders are called on directly: load_csl on a path that does not
\* exist and on one with another extension, load_minos on a path that does
\* not exist and on a .minos file
CslLoads ==
    { <<Path("gone", Suffix(<<"c", "s", "l">>), FALSE), <<>>>>,
      <<Path("notes", Suffix(<<"t", "x", "t">>), TRUE), FileBreaks>> }

MinosLoads ==
    { <<Path("gone", Suffix(<<"m", "i", "n", "o", "s">>), FALSE), <<>>>>,
      <<Path("log", Suffix(<<"m", "i", "n", "o", "s">>), TRUE), MinosBreaks>> }

\* the file with the over-long field is offered to a manager that holds at
\* most one record and has just been constructed or saved
OverLongOffered ==
    /\ Len(records) <= 1
    /\ last.op \in {"init", "save_csl"}
    /\ last.err = "none"

\* load_file on a file with an over-long field
LoadFileOverLong(lines) ==
    /\ OverLongOffered
    /\ LoadFileCsl(lines)

\* load_csl on a file with an over-long field
LoadCslOverLong(lines) ==
    /\ OverLongOffered
    /\ LoadCsl(Path("log", <<".", "c", "s", "l">>, TRUE), lines)

(***************************************************************************)
(* Specifications                                                          *)
(***************************************************************************)
\* every operation of the manager
Next ==
    \/ \E r \in Recs : AddOrMergeRecord(r)
    \/ \E mode \in MergeMode : SetMergeMode(mode)
    \/ \E value \in BOOLEAN : SetRemoveCallsignOnly(value)
    \/ Reset
    \/ SaveCsl
    \/ SaveCslFails
    \/ \E f \in Files : LoadFileCsl(f)
    \/ LoadSaved
    \/ \E f \in Files : LoadCsl(Path("log", <<".", "c", "s", "l">>, TRUE), f)
    \/ LoadEdi(Path("log", <<".", "e", "d", "i">>, TRUE), FileEdiBlank)
    \/ LoadAdif(Path("log", <<".", "a", "d", "i", "f">>, TRUE), FileAdifBlank)
    \/ LoadMinos(Path("log", <<".", "m", "i", "n", "o", "s">>, TRUE), MinosSpaceCall)
    \/ LoadFileOverLong(FileOverLong)
    \/ LoadCslOverLong(FileOverLong)

Spec == Init /\ [][Next]_vars

\* the merge policies, without files
NextMerge ==
    \/ \E r \in MergeRecs : AddOrMergeRecord(r)
    \/ \E mode \in MergeMode : SetMergeMode(mode)
    \/ \E value \in BOOLEAN : SetRemoveCallsignOnly(value)
    \/ Reset

SpecMerge == Init /\ [][NextMerge]_vars

\* the manager with observers registered
NextNotify ==
    \/ \E callback \in Callbacks : AddObserver(callback)
    \/ \E r \in NotifyRecs : AddOrMergeRecord(r)
    \/ \E mode \in MergeMode : SetMergeMode(mode)
    \/ Reset
    \/ SaveCsl
    \/ SaveCslFails
    \/ LoadFileCsl(FileLegend)
    \/ LoadCsl(Path("log", <<".", "c", "s", "l">>, TRUE), FileLegend)
    \/ LoadFileCsl(FileTooWide)
    \/ LoadEdi(Path("log", <<".", "e", "d", "i">>, TRUE), FileEdiBlank)
    \/ LoadFileOverLong(FileOverLong)
    \/ LoadCslOverLong(FileOverLong)
    \/ NotifyObservers

SpecNotify == Init /\ [][NextNotify]_vars

\* loads of every format, good and bad, between the other operations
NextLoad ==
    \/ \E load \in Loads : LoadFile(load[1], load[2])
    \/ \E load \in CslLoads : LoadCsl(load[1], load[2])
    \/ LoadEdi(Path("log", <<".", "e", "d", "i">>, TRUE), FileEdi)
    \/ LoadAdif(Path("log", <<".", "a", "d", "i">>, TRUE), FileAdif)
    \/ \E load \in MinosLoads : LoadMinos(load[1], load[2])
    \/ LoadFileOverLong(FileOverLongLog)
    \/ LoadCslOverLong(FileOverLongLog)
    \/ \E mode \in MergeMode : SetMergeMode(mode)
    \/ Reset
    \/ SaveCsl

SpecLoad == Init /\ [][NextLoad]_vars

\* Keep-All in force for every call
NextKeepAll ==
    \/ \E r \in MergeRecs : AddOrMergeRecord(r)
    \/ \E value \in BOOLEAN : SetRemoveCallsignOnly(value)

SpecKeepAll == Init /\ [][NextKeepAll]_vars

\* configuration changes and single records, with observers registered
NextConfig ==
    \/ AddObserver("update_display")
    \/ \E r \in NotifyRecs : AddOrMergeRecord(r)
    \/ \E mode \in MergeMode : SetMergeMode(mode)
    \/ \E value \in BOOLEAN : SetRemoveCallsignOnly(value)
    \/ SaveCsl

SpecConfig == Init /\ [][NextConfig]_vars

\* Keep-All never in force when a record is submitted
NextNeverKeepAll ==
    \/ \E r \in MergeRecs : merge_mode # "KEEP_ALL" /\ AddOrMergeRecord(r)
    \/ \E mode \in MergeMode \ {"KEEP_ALL"} : SetMergeMode(mode)
    \/ \E value \in BOOLEAN : SetRemoveCallsignOnly(value)
    \/ Reset

SpecNeverKeepAll == Init /\ [][NextNeverKeepAll]_vars

\* a fresh manager and a file drawn at the start
InitFile(files) ==
    /\ records = <<>>
    /\ current_file = <<>>
    /\ merge_mode = "KEEP_ALL"
    /\ remove_callsign_only = FALSE
    /\ observers = <<>>
    /\ has_unsaved_changes = FALSE
    /\ \E content \in files :
           last = [op |-> "draw_file", entry |-> "draw_file", arg |-> content, err |-> "none", res |-> <<>>,
                   pre |-> <<>>, dirty0 |-> FALSE, file0 |-> <<>>,
                   notified |-> <<>>, progress |-> <<>>, submitted |-> <<>>]

\* load_file on the file drawn, found under the name log with this extension
LoadDrawn(suffix) ==
    /\ last.op = "draw_file"
    /\ LoadFile(Path("log", suffix, TRUE), last.arg)

\* load_edi on the file drawn, called by the application itself
LoadEdiDrawn ==
    /\ last.op = "draw_file"
    /\ LoadEdi(Path("log", <<".", "e", "d", "i">>, TRUE), last.arg)

\* load_adif on the file drawn, called by the application itself
LoadAdifDrawn ==
    /\ last.op = "draw_file"
    /\ LoadAdif(Path("log", <<".", "a", "d", "i">>, TRUE), last.arg)

\* load_edi on every .edi file of the bounded set
InitEdi == InitFile(EdiFiles)

NextEdi ==
    \/ LoadDrawn(<<".", "e", "d", "i">>)
    \/ LoadEdiDrawn

SpecEdi == InitEdi /\ [][NextEdi]_vars

\* extract_adif_field(qso, field), qso being the text of the file drawn
ExtractDrawn(field) ==
    /\ last.op = "draw_file"
    /\ last' = [Call("extract_adif_field", <<join_chars(last.arg), field>>, "none") EXCEPT
                   !.res = extract_adif_field(join_chars(last.arg), field)]
    /\ UNCHANGED manager

\* load_adif and extract_adif_field on every .adi file of the bounded set
InitAdif == InitFile(AdifFiles \cup {FileAdifLongLength})

NextAdif ==
    \/ LoadDrawn(<<".", "a", "d", "i">>)
    \/ LoadAdifDrawn
    \/ \E field \in AdifNames : ExtractDrawn(field)

SpecAdif == InitAdif /\ [][NextAdif]_vars

\* the pure operations of ContestRecord, each applied to an input drawn at
\* the start
InitRecord ==
    /\ records = <<>>
    /\ current_file = <<>>
    /\ merge_mode = "KEEP_ALL"
    /\ remove_callsign_only = FALSE
    /\ observers = <<>>
    /\ has_unsaved_changes = FALSE
    /\ \/ \E data \in FieldLists :
              last = [op |-> "draw_list", entry |-> "draw_list", arg |-> data, err |-> "none", res |-> <<>>,
                      pre |-> <<>>, dirty0 |-> FALSE, file0 |-> <<>>,
                      notified |-> <<>>, progress |-> <<>>, submitted |-> <<>>]
       \/ \E r1, r2 \in EqRecs :
              last = [op |-> "draw_pair", entry |-> "draw_pair", arg |-> <<r1, r2>>, err |-> "none", res |-> <<>>,
                      pre |-> <<>>, dirty0 |-> FALSE, file0 |-> <<>>,
                      notified |-> <<>>, progress |-> <<>>, submitted |-> <<>>]

NextRecord ==
    \/ FromListToList
    \/ RecordEq

SpecRecord == InitRecord /\ [][NextRecord]_vars

(***************************************************************************)
(* Vocabulary of the properties, defined without the operators above       *)
(***************************************************************************)
\* the letters that differ in case only
LowerLetters == <<"a","b","c","d","e","f","g","h","i","j","k","l","m",
                  "n","o","p","q","r","s","t","u","v","w","x","y","z","é">>
UpperLetters == <<"A","B","C","D","E","F","G","H","I","J","K","L","M",
                  "N","O","P","Q","R","S","T","U","V","W","X","Y","Z","É">>

SameLetter(c, d) ==
    \/ c = d
    \/ \E k \in 1..Len(LowerLetters) : {c, d} = {LowerLetters[k], UpperLetters[k]}

\* s and t are equal ignoring case
SameIgnoringCase(s, t) ==
    Len(s) = Len(t) /\ \A i \in 1..Len(s) : SameLetter(s[i], t[i])

\* s without its surrounding whitespace
Trimmed(s) ==
    LET solid == {i \in 1..Len(s) : s[i] \notin Whitespace}
    IN  IF solid = {} THEN <<>>
        ELSE SubSeq(s, CHOOSE i \in solid : \A j \in solid : i <= j,
                       CHOOSE i \in solid : \A j \in solid : i >= j)

IsBlank(s) == Trimmed(s) = <<>>

\* value equality of two records as section 3 of the specification words it
ValueEqual(r1, r2) ==
    /\ SameIgnoringCase(r1.callsign, r2.callsign)
    /\ Trimmed(r1.locator) = Trimmed(r2.locator)
    /\ Trimmed(r1.exchange) = Trimmed(r2.exchange)
    /\ Trimmed(r1.comment) = Trimmed(r2.comment)

\* positions of the records of recs that have the callsign of r, ignoring case
SameCallsignAt(recs, r) ==
    {i \in 1..Len(recs) : SameIgnoringCase(recs[i].callsign, r.callsign)}

\* r has no data beyond its callsign
CallsignOnly(r) == IsBlank(r.locator) /\ IsBlank(r.exchange) /\ IsBlank(r.comment)

\* s begins with the text tag
Begins(s, tag) == Len(s) >= Len(tag) /\ SubSeq(s, 1, Len(tag)) = tag

\* the last call was add_or_merge_record
Added == last.op = "add_or_merge_record"

(***************************************************************************)
(* Properties                                                              *)
(***************************************************************************)

\* C1: with Keep-All in force for every call and the store empty at the
\* start, the store never holds two value-equal records.
C1_KeepAllNoValueEqualPair ==
    \A i, j \in 1..Len(records) : i # j => ~ValueEqual(records[i], records[j])

\* a value-equal but differently written record was offered and not stored
C1_Witness ==
    /\ Added
    /\ merge_mode = "KEEP_ALL"
    /\ Len(last.pre) >= 2
    /\ \E i \in 1..Len(last.pre) :
           ValueEqual(last.pre[i], last.arg) /\ last.pre[i] # last.arg
    /\ records = last.pre

\* C2 as stated: under Keep-Most-Recent, when exactly one stored record r1 has
\* the callsign of the incoming r2 (ignoring case, other fields differing),
\* after add_or_merge_record(r2) exactly one record has that callsign, it is
\* the last element and its four fields are those of r2.
C2_KeepRecentReplaces_Original ==
    (/\ Added
     /\ merge_mode = "KEEP_RECENT"
     /\ Cardinality(SameCallsignAt(last.pre, last.arg)) = 1
     /\ \A i \in SameCallsignAt(last.pre, last.arg) : ~ValueEqual(last.pre[i], last.arg))
    => /\ Cardinality(SameCallsignAt(records, last.arg)) = 1
       /\ records[Len(records)] = last.arg

\* C2 amended: the same, provided r2 is not dropped by the callsign-only
\* filter (the filter is off, or r2 has data beyond its callsign).
C2_KeepRecentReplaces ==
    (/\ Added
     /\ merge_mode = "KEEP_RECENT"
     /\ ~(remove_callsign_only /\ CallsignOnly(last.arg))
     /\ Cardinality(SameCallsignAt(last.pre, last.arg)) = 1
     /\ \A i \in SameCallsignAt(last.pre, last.arg) : ~ValueEqual(last.pre[i], last.arg))
    => /\ Cardinality(SameCallsignAt(records, last.arg)) = 1
       /\ records[Len(records)] = last.arg

\* r2 replaced an r1 written in the other case that was not the last element
C2_Witness ==
    /\ Added
    /\ merge_mode = "KEEP_RECENT"
    /\ ~(remove_callsign_only /\ CallsignOnly(last.arg))
    /\ Len(last.pre) >= 2
    /\ SameCallsignAt(last.pre, last.arg) = {1}
    /\ last.pre[1].callsign # last.arg.callsign
    /\ ~ValueEqual(last.pre[1], last.arg)
    /\ records = Append(Tail(last.pre), last.arg)

\* C3: under Smart-Merge, when a stored record has the incoming record's
\* callsign ignoring case, the record stored at the place of the first such
\* record keeps that record's callsign as written and holds, field by field,
\* the incoming value if it is non-blank after trimming and the existing
\* value otherwise.
C3_SmartMergeFields ==
    (/\ Added
     /\ merge_mode = "SMART_MERGE"
     /\ SameCallsignAt(last.pre, last.arg) # {})
    => LET i == CHOOSE k \in SameCallsignAt(last.pre, last.arg) :
                    \A j \in SameCallsignAt(last.pre, last.arg) : k <= j
           old == last.pre[i]
           new == last.arg
       IN  /\ Len(records) = Len(last.pre)
           /\ records[i].callsign = old.callsign
           /\ records[i].locator =
                  IF IsBlank(new.locator) THEN old.locator ELSE new.locator
           /\ records[i].exchange =
                  IF IsBlank(new.exchange) THEN old.exchange ELSE new.exchange
           /\ records[i].comment =
                  IF IsBlank(new.comment) THEN old.comment ELSE new.comment

\* a merge that took one field from the incoming record, kept another of the
\* existing record, and kept the existing casing of the callsign
C3_Witness ==
    /\ Added
    /\ merge_mode = "SMART_MERGE"
    /\ \E i \in 1..Len(last.pre) :
          /\ SameCallsignAt(last.pre, last.arg) = {i}
          /\ last.pre[i].callsign # last.arg.callsign
          /\ records[i].callsign = last.pre[i].callsign
          /\ IsBlank(last.arg.locator) /\ ~IsBlank(last.pre[i].locator)
          /\ records[i].locator = last.pre[i].locator
          /\ ~IsBlank(last.arg.exchange)
          /\ records[i].exchange = last.arg.exchange
          /\ records[i] # last.pre[i]

\* C4 as stated: with the callsign-only filter on, a record whose locator,
\* exchange and comment are all blank leaves the store unchanged under every
\* policy; with the filter off the same record (non-empty callsign, no
\* value-equal record stored) is stored.
C4_CallsignOnlyFilter_Original ==
    (Added /\ CallsignOnly(last.arg))
    => /\ remove_callsign_only => records = last.pre
       /\ (/\ ~remove_callsign_only
           /\ last.arg.callsign # <<>>
           /\ \A i \in 1..Len(last.pre) : ~ValueEqual(last.pre[i], last.arg))
          => \E i \in 1..Len(records) : ValueEqual(records[i], last.arg)

\* C4 amended: with the filter off the record is stored as the last element
\* under Keep-All and Keep-Most-Recent, and under Smart-Merge when no stored
\* record has its callsign; under Smart-Merge with a callsign match the store
\* is left unchanged.
C4_CallsignOnlyFilter ==
    (Added /\ CallsignOnly(last.arg))
    => /\ remove_callsign_only => records = last.pre
       /\ (/\ ~remove_callsign_only
           /\ last.arg.callsign # <<>>
           /\ \A i \in 1..Len(last.pre) : ~ValueEqual(last.pre[i], last.arg))
          => IF merge_mode = "SMART_MERGE" /\ SameCallsignAt(last.pre, last.arg) # {}
             THEN records = last.pre
             ELSE records # <<>> /\ records[Len(records)] = last.arg

\* the filter dropped a record with a callsign and whitespace-only fields
\* that no stored record equals
C4_Witness ==
    /\ Added
    /\ remove_callsign_only
    /\ CallsignOnly(last.arg)
    /\ last.arg.callsign # <<>>
    /\ last.arg.locator # <<>>
    /\ last.pre # <<>>
    /\ \A i \in 1..Len(last.pre) : ~ValueEqual(last.pre[i], last.arg)
    /\ records = last.pre

\* C5: no stored record has an empty callsign, whatever the interleaving of
\* add_or_merge_record, loads, reset, save and configuration changes.
C5_NoEmptyCallsign ==
    \A i \in 1..Len(records) : records[i].callsign # <<>>

\* an EDI load handed over a record with an empty callsign and other data,
\* then one with a callsign: the store, not empty before, grew by one
C5_Witness ==
    /\ last.op = "load_edi"
    /\ last.err = "none"
    /\ Len(last.submitted) = 2
    /\ last.submitted[1].callsign = <<>>
    /\ ~CallsignOnly(last.submitted[1])
    /\ last.pre # <<>>
    /\ Len(records) = Len(last.pre) + 1

\* C6: add_or_merge_record leaves the store unchanged when the incoming
\* callsign is blank (empty or whitespace only), under every policy.
C6_BlankCallsignDiscarded ==
    (Added /\ IsBlank(last.arg.callsign)) => records = last.pre

\* C7: for a list of 1 to 4 strings, from_list then to_list gives four
\* elements, the given values in order followed by empty strings; from_list
\* of the empty list fails with a validation error.
C7_FromListRoundTrip ==
    (last.op = "from_list" /\ Len(last.arg) <= 4)
    => IF Len(last.arg) = 0
       THEN last.err = "ValueError"
       ELSE /\ last.err = "none"
            /\ Len(last.res) = 4
            /\ \A i \in 1..4 :
                   last.res[i] = IF i <= Len(last.arg) THEN last.arg[i] ELSE <<>>

\* C8: r1 == r2 holds exactly when the callsigns are equal ignoring case and
\* locator, exchange and comment are equal after trimming; equality is
\* reflexive and symmetric.
C8_RecordEquality ==
    last.op = "eq"
    => LET r1 == last.arg[1]
           r2 == last.arg[2]
       IN  /\ last.res <=> ValueEqual(r1, r2)
           /\ r1 = r2 => last.res
           /\ last.res <=> ContestRecord_eq(r2, r1)

\* two records written differently in callsign case and in surrounding
\* whitespace compared equal
C8_Witness ==
    /\ last.op = "eq"
    /\ last.res = TRUE
    /\ last.arg[1].callsign # last.arg[2].callsign
    /\ last.arg[1].locator # last.arg[2].locator
    /\ last.arg[1].comment # <<>>

\* the first character of the line is '#'
BeginsWithHash(line) == line # <<>> /\ line[1] = "#"

\* C9: a store of N records (non-empty callsigns, pairwise not value-equal),
\* saved by save_csl and loaded into a fresh engine under Keep-All, gives N
\* records value-equal to the saved ones, in the same order.
C9_CslRoundTrip ==
    (/\ last.op = "save_csl"
     /\ last.err = "none"
     /\ \A i \in 1..Len(records) : records[i].callsign # <<>>
     /\ \A i, j \in 1..Len(records) : i # j => ~ValueEqual(records[i], records[j]))
    => LET loaded == load_csl(readlines(universal_newlines(last.res)),
                              <<>>, "KEEP_ALL", FALSE)
       IN  /\ loaded.err = "none"
           /\ Len(loaded.records) = Len(records)
           /\ \A i \in 1..Len(records) : ValueEqual(loaded.records[i], records[i])

\* C10: loading a CSL file whose first two lines begin with '#' creates no
\* record from either of them; only the later non-empty rows become records,
\* one per row.
C10_HeaderLinesIgnored ==
    (/\ last.op = "load_csl"
     /\ Len(last.arg) >= 2
     /\ BeginsWithHash(last.arg[1])
     /\ BeginsWithHash(last.arg[2])
     /\ \A i \in 3..Len(last.arg) : ~BeginsWithHash(last.arg[i])
     /\ \A i \in 1..Len(last.pre) : ~BeginsWithHash(last.pre[i].callsign))
    => /\ \A i \in 1..Len(records) : ~BeginsWithHash(records[i].callsign)
       /\ Len(records) - Len(last.pre)
              <= Cardinality({i \in 3..Len(last.arg) : last.arg[i] \notin {<<>>, <<"\n">>}})

\* called is what n notifications invoke one after the other, each going
\* through the registrations from first to last
Notifications(called, registered, n) ==
    /\ Len(called) = n * Len(registered)
    /\ \A k \in 1..Len(called) :
           called[k] = registered[((k - 1) % Len(registered)) + 1]

Saved == last.op = "save_csl" /\ last.err = "none"

\* C11: a step that changes the store leaves has_unsaved_changes true, and
\* has_unsaved_changes goes from true to false only in a successful save_csl.
C11_DirtyFlag ==
    /\ records # last.pre => has_unsaved_changes
    /\ last.dirty0 /\ ~has_unsaved_changes => Saved

\* a reset of a non-empty store that had been saved: the flag goes up again
C11_Witness ==
    /\ last.op = "reset"
    /\ last.pre # <<>>
    /\ ~last.dirty0
    /\ has_unsaved_changes

\* C12: reset leaves the store empty, sets has_unsaved_changes if the store
\* was non-empty, leaves it as it was if the store was empty, and invokes
\* every registered observer once.
C12_Reset ==
    last.op = "reset" =>
        /\ records = <<>>
        /\ last.pre # <<>> => has_unsaved_changes
        /\ last.pre = <<>> => has_unsaved_changes = last.dirty0
        /\ last.notified = observers

\* a reset of a non-empty, saved store with two observers registered
C12_Witness ==
    /\ last.op = "reset"
    /\ last.pre # <<>>
    /\ ~last.dirty0
    /\ Len(observers) = 2
    /\ observers[1] # observers[2]

\* C13: a successful save_csl clears has_unsaved_changes, notifies the
\* observers once and leaves the store alone; a failing one raises the write
\* error, notifies nobody and leaves store and flag as they were.
C13_SaveCsl ==
    last.op = "save_csl" =>
        /\ records = last.pre
        /\ last.err \in {"none", "IOError"}
        /\ last.err = "none" =>
               /\ ~has_unsaved_changes
               /\ last.notified = observers
        /\ last.err = "IOError" =>
               /\ has_unsaved_changes = last.dirty0
               /\ last.notified = <<>>

\* a failing save of a changed, non-empty store with an observer registered
C13_Witness ==
    /\ last.op = "save_csl"
    /\ last.err = "IOError"
    /\ last.dirty0
    /\ records # <<>>
    /\ observers # <<>>

\* C18: the observers a call invokes are those of whole notifications, each
\* going through every registration once, in registration order; a call of
\* add_or_merge_record or reset, or a load, that changes the store notifies
\* at least once, and a successful save exactly once.
C18_Notification ==
    /\ \E n \in 0..(MaxRecords + 3) : Notifications(last.notified, observers, n)
    /\ last.op # "add_observer" /\ records # last.pre =>
           Len(last.notified) >= Len(observers)
    /\ last.op \in {"add_or_merge_record", "reset"} /\ records # last.pre =>
           last.notified = observers
    /\ Saved => last.notified = observers

\* a load that merged a record and finished, with two different observers
C18_Witness ==
    /\ last.op = "load_csl"
    /\ last.err = "none"
    /\ records # last.pre
    /\ Len(observers) = 2
    /\ observers[1] # observers[2]
    /\ Len(last.notified) = 6

\* the call was a load: load_file, or one of the loaders called directly
Loaded == last.op \in {"load_file", "load_csl", "load_edi", "load_adif", "load_minos"}

\* the call was load_file
LoadFileCalled == last.entry = "load_file"

\* store, flag and current file as before the call
AsBefore ==
    /\ records = last.pre
    /\ has_unsaved_changes = last.dirty0
    /\ current_file = last.file0

\* the extension is one of the five, letter case aside
Supported(suffix) ==
    \E known \in { <<".", "c", "s", "l">>, <<".", "e", "d", "i">>,
                   <<".", "a", "d", "i">>, <<".", "a", "d", "i", "f">>,
                   <<".", "m", "i", "n", "o", "s">> } :
        SameIgnoringCase(suffix, known)

\* C14: load_file on a path that does not exist fails with the not-found
\* error, on an existing path with another extension than the five with the
\* unsupported-format error; no parser ran, store, flag and current file are
\* as before and no observer was invoked.
C14_LoadFileRejects ==
    LoadFileCalled /\ (~last.res.exists \/ ~Supported(last.res.suffix)) =>
        /\ last.err = IF last.res.exists THEN "ValueError" ELSE "FileNotFoundError"
        /\ last.op = "load_file"
        /\ last.progress = <<>>
        /\ AsBefore
        /\ last.notified = <<>>

\* an existing .txt path refused while the store holds a loaded file
C14_Witness ==
    /\ last.op = "load_file"
    /\ last.err = "ValueError"
    /\ last.res.exists
    /\ records # <<>>
    /\ current_file # <<>>

\* C15: a Minos load of content without '<stream:stream', or of content that
\* is not well-formed XML, raises and leaves the store (so its size), the
\* flag and the current file as before.
C15_MinosStructuralFailure ==
    /\ last.op = "load_minos"
    /\ last.res.exists
    /\ (~last.arg.stream_start \/ ~last.arg.well_formed)
    =>
        /\ last.err # "none"
        /\ Len(records) = Len(last.pre)
        /\ AsBefore

\* broken XML offered while the store holds a saved, loaded file
C15_Witness ==
    /\ last.op = "load_minos"
    /\ last.res.exists
    /\ last.arg.stream_start
    /\ ~last.arg.well_formed
    /\ records # <<>>
    /\ ~last.dirty0
    /\ current_file # <<>>

\* r passes both discard checks of add_or_merge_record under the filter
\* setting in force
Kept(r, filter) == r.callsign # <<>> /\ ~(filter /\ CallsignOnly(r))

\* row is in the store as the policy in force leaves a merged record there:
\* under Keep-All a value-equal record, otherwise a record of its callsign
Merged(row) ==
    \E i \in 1..Len(records) :
        IF merge_mode = "KEEP_ALL" THEN ValueEqual(records[i], row)
        ELSE SameIgnoringCase(records[i].callsign, row.callsign)

\* a line without its line break
Unbroken(line) == SelectSeq(line, LAMBDA c : c \notin {"\n", "\r"})

\* the ','-separated columns of a line that holds no quote
Columns(line) ==
    LET commas == SelectSeq([i \in 1..Len(line) |-> i], LAMBDA i : line[i] = ",")
        cuts   == <<0>> \o commas \o <<Len(line) + 1>>
    IN  [n \in 1..(Len(commas) + 1) |-> SubSeq(line, cuts[n] + 1, cuts[n + 1] - 1)]

\* the lines of a .csl file hold no quote, so that its rows are its lines
Plain(lines) == \A k \in 1..Len(lines) : \A i \in 1..Len(lines[k]) : lines[k][i] # "\""

\* a row load_csl cannot take: more than four columns, or a column of more
\* than field_size_limit characters
Untakable(line) ==
    LET columns == Columns(Unbroken(line))
    IN  \/ Len(columns) > 4
        \/ \E n \in 1..Len(columns) : Len(columns[n]) > field_size_limit

\* the record a row of at most four columns stands for
RowRecord(line) ==
    LET columns == Columns(Unbroken(line))
        column(n) == IF n <= Len(columns) THEN Trimmed(columns[n]) ELSE <<>>
    IN  [callsign |-> column(1), locator |-> column(2),
         exchange |-> column(3), comment |-> column(4)]

\* the data rows of a plain .csl file that stand before its first row that
\* cannot be taken
RowsBeforeFailure(lines) ==
    {k \in 1..Len(lines) :
        /\ \A j \in 1..k : ~Untakable(lines[j])
        /\ ~Begins(lines[k], <<"#">>)}

\* an iq that yields a record: a MinosLogQSO with a non-blank callRx
Qualifying(iq) ==
    /\ iq.methodName = "MinosLogQSO"
    /\ iq.struct
    /\ iq.qso_data.callRx.has = "text"
    /\ ~IsBlank(iq.qso_data.callRx.text)

\* an iq whose locRx or exchangeRx element is there without text
Unreadable(iq) ==
    \/ iq.qso_data.locRx.has = "None"
    \/ iq.qso_data.exchangeRx.has = "None"

\* the qualifying iqs of a .minos file that stand before its first unreadable
\* one and that the callsign-only filter, if on, does not drop
IqsBeforeFailure(iqs) ==
    {k \in 1..Len(iqs) :
        /\ Qualifying(iqs[k])
        /\ \A j \in 1..k : ~Unreadable(iqs[j])
        /\ \/ ~remove_callsign_only
           \/ ~IsBlank(iqs[k].qso_data.locRx.text)
           \/ ~IsBlank(iqs[k].qso_data.exchangeRx.text)}

\* a field of a stored record is that of a record handed over by the load
\* or of a record stored before it, of the same callsign
FromFileOrBefore(r, field) ==
    \/ \E k \in 1..Len(last.submitted) :
           /\ SameIgnoringCase(last.submitted[k].callsign, r.callsign)
           /\ last.submitted[k][field] = r[field]
    \/ \E j \in 1..Len(last.pre) :
           /\ SameIgnoringCase(last.pre[j].callsign, r.callsign)
           /\ last.pre[j][field] = r[field]

\* C16: after a load that failed, of whatever format and for whatever reason,
\* every record the loader handed over before the failure and that was not
\* discarded is in the store as the policy leaves it, and every stored record
\* was there before the call or has the callsign of a record handed over,
\* each of its fields being that of such a record or of a record of that
\* callsign stored before.  For a .csl file without quotes the records handed
\* over are read off the file: every data row before the first row of more
\* than four columns or with an over-long column is merged; for a .minos file
\* every qualifying iq before the first with a locRx or exchangeRx element
\* without text is merged, unless the callsign-only filter drops it.
C16_NoRollback ==
    (Loaded /\ last.err # "none") =>
        /\ \A k \in 1..Len(last.submitted) :
               Kept(last.submitted[k], remove_callsign_only) => Merged(last.submitted[k])
        /\ \A i \in 1..Len(records) :
               \/ \E j \in 1..Len(last.pre) : last.pre[j] = records[i]
               \/ /\ \E k \in 1..Len(last.submitted) :
                         SameIgnoringCase(last.submitted[k].callsign, records[i].callsign)
                  /\ \A field \in {"locator", "exchange", "comment"} :
                         FromFileOrBefore(records[i], field)
        /\ (last.op = "load_csl" /\ last.res.exists /\ Plain(last.arg)) =>
               \A k \in RowsBeforeFailure(last.arg) :
                   Kept(RowRecord(last.arg[k]), remove_callsign_only)
                   => Merged(RowRecord(last.arg[k]))
        /\ (last.op = "load_minos" /\ last.res.exists) =>
               \A k \in IqsBeforeFailure(last.arg.iqs) :
                   \E i \in 1..Len(records) :
                       SameIgnoringCase(records[i].callsign,
                                        Trimmed(last.arg.iqs[k].qso_data.callRx.text))

\* a .csl load that the reader ended at an over-long field of its second row:
\* the record of the first row is in the store next to the one stored before
C16_Witness ==
    /\ last.op = "load_csl"
    /\ last.err = "Error"
    /\ Len(last.pre) = 1
    /\ Len(records) = 2
    /\ records[1] = last.pre[1]
    /\ records[2] = RowRecord(last.arg[1])
    /\ Untakable(last.arg[2])

\* fractions compared
AtMost(v, w) == v.num * w.den <= w.num * v.den

Percent(n) == [num |-> n, den |-> 1]

\* C17: the values a load delivers to the progress sink lie in [0,100] and
\* never decrease; in an EDI load those of the first pass (one per line) are
\* at most 50 and those of the second at least 50.
C17_Progress ==
    LoadFileCalled =>
        /\ \A k \in 1..Len(last.progress) :
               /\ last.progress[k].den > 0
               /\ AtMost(Percent(0), last.progress[k])
               /\ AtMost(last.progress[k], Percent(100))
        /\ \A k \in 1..(Len(last.progress) - 1) :
               AtMost(last.progress[k], last.progress[k + 1])
        /\ last.op = "load_edi" =>
               \A k \in 1..Len(last.progress) :
                   IF k <= Len(last.arg)
                   THEN AtMost(last.progress[k], Percent(50))
                   ELSE AtMost(Percent(50), last.progress[k])

\* an EDI load of six lines that stopped its second pass at the fifth
C17_Witness ==
    /\ last.op = "load_edi"
    /\ Len(last.arg) = 6
    /\ Len(last.progress) = 11
    /\ last.progress[6] = [num |-> 600, den |-> 12]
    /\ last.progress[7] # last.progress[6]

\* C19: loading a well-formed Minos file without a qualifying iq fails.
C19_MinosEmptyResult ==
    /\ last.op = "load_minos"
    /\ last.res.exists
    /\ last.arg.stream_start
    /\ last.arg.well_formed
    /\ \A k \in 1..Len(last.arg.iqs) : ~Qualifying(last.arg.iqs[k])
    => last.err # "none"

\* C20: a load never empties or shrinks the store, and with Keep-All in force
\* the store before the load is a prefix of the store after it, whether the
\* load succeeded or failed.
C20_RecordsAccumulate ==
    Loaded =>
        /\ Len(records) >= Len(last.pre)
        /\ merge_mode = "KEEP_ALL" => SubSeq(records, 1, Len(last.pre)) = last.pre

\* a failing load under Keep-All that added a record to a non-empty store
C20_Witness ==
    /\ Loaded
    /\ last.err # "none"
    /\ merge_mode = "KEEP_ALL"
    /\ last.pre # <<>>
    /\ Len(records) > Len(last.pre)

\* the first position of recs holding the callsign of r, ignoring case
FirstSameCallsign(recs, r) ==
    CHOOSE k \in SameCallsignAt(recs, r) : \A j \in SameCallsignAt(recs, r) : k <= j

\* C21, one step: a setter changes its own setting and nothing else and
\* notifies nobody; the call of add_or_merge_record that follows a setter is
\* governed by the value just set.
C21_Step ==
    /\ last'.op = "set_merge_mode"
       => /\ merge_mode' = last'.arg
          /\ last'.notified = <<>>
          /\ UNCHANGED <<records, current_file, remove_callsign_only, observers,
                         has_unsaved_changes>>
    /\ last'.op = "set_remove_callsign_only"
       => /\ remove_callsign_only' = last'.arg
          /\ last'.notified = <<>>
          /\ UNCHANGED <<records, current_file, merge_mode, observers,
                         has_unsaved_changes>>
    /\ (/\ last.op = "set_merge_mode"
        /\ last'.op = "add_or_merge_record"
        /\ Kept(last'.arg, remove_callsign_only)
        /\ SameCallsignAt(records, last'.arg) # {})
       => CASE last.arg = "KEEP_ALL" ->
                 (\A i \in 1..Len(records) : ~ValueEqual(records[i], last'.arg))
                 => records' = Append(records, last'.arg)
            [] last.arg = "KEEP_RECENT" ->
                 /\ Len(records') = Len(records)
                 /\ records'[Len(records')] = last'.arg
            [] last.arg = "SMART_MERGE" ->
                 /\ Len(records') = Len(records)
                 /\ records'[FirstSameCallsign(records, last'.arg)].callsign =
                        records[FirstSameCallsign(records, last'.arg)].callsign
    /\ (/\ last.op = "set_remove_callsign_only"
        /\ last'.op = "add_or_merge_record"
        /\ last'.arg.callsign # <<>>
        /\ CallsignOnly(last'.arg))
       => IF last.arg
          THEN records' = records /\ has_unsaved_changes' = has_unsaved_changes
          ELSE has_unsaved_changes'

\* C21: set_merge_mode and set_remove_callsign_only are pure configuration:
\* each changes only its setting, leaves the store and has_unsaved_changes
\* unchanged, notifies no observer, and the new setting governs the very next
\* add_or_merge_record call.
C21_SettersArePureConfiguration == [][C21_Step]_vars

\* a policy was set while records were stored and saved and an observer was
\* registered: the store is still saved and nobody was notified
C21_Witness ==
    /\ last.op = "set_merge_mode"
    /\ last.arg = "SMART_MERGE"
    /\ merge_mode = "SMART_MERGE"
    /\ records # <<>>
    /\ observers # <<>>
    /\ ~has_unsaved_changes
    /\ remove_callsign_only

\* C30: add_or_merge_record sets has_unsaved_changes and notifies every
\* observer exactly once if and only if the incoming record passes both
\* discard checks (callsign not empty, not dropped by the callsign-only
\* filter), whether or not the store changed; a discarded record causes no
\* notification and leaves has_unsaved_changes as it was.
C30_FlagAndNotifyIffKept ==
    Added
    => IF Kept(last.arg, remove_callsign_only)
       THEN has_unsaved_changes /\ last.notified = observers
       ELSE /\ has_unsaved_changes = last.dirty0
            /\ last.notified = <<>>
            /\ records = last.pre

\* a record value-equal to a stored one was submitted under Keep-All to a
\* saved store: the store is as before, yet the flag is set and the observers
\* were notified
C30_Witness ==
    /\ Added
    /\ merge_mode = "KEEP_ALL"
    /\ Kept(last.arg, remove_callsign_only)
    /\ records = last.pre
    /\ records # <<>>
    /\ ~last.dirty0
    /\ has_unsaved_changes
    /\ observers # <<>>
    /\ last.notified = observers

\* C24 as stated: under Smart-Merge, a record that has the callsign of a
\* stored record replaces the entry at the place of the first such record
\* only: the length of the store is unchanged and every other place holds the
\* record it held before; with no such record the incoming record is appended
\* and all earlier places are unchanged.
C24_SmartMergeInPlace_Original ==
    (/\ Added
     /\ merge_mode = "SMART_MERGE")
    => IF SameCallsignAt(last.pre, last.arg) # {}
       THEN /\ Len(records) = Len(last.pre)
            /\ \A i \in 1..Len(records) :
                   i # FirstSameCallsign(last.pre, last.arg) => records[i] = last.pre[i]
       ELSE records = Append(last.pre, last.arg)

\* C24 amended: the same for a record that passes both discard checks (its
\* callsign is not empty and the callsign-only filter does not drop it); a
\* record that does not pass them leaves the store as it was.
C24_SmartMergeInPlace ==
    (/\ Added
     /\ merge_mode = "SMART_MERGE")
    => IF ~Kept(last.arg, remove_callsign_only)
       THEN records = last.pre
       ELSE IF SameCallsignAt(last.pre, last.arg) # {}
       THEN /\ Len(records) = Len(last.pre)
            /\ \A i \in 1..Len(records) :
                   i # FirstSameCallsign(last.pre, last.arg) => records[i] = last.pre[i]
       ELSE records = Append(last.pre, last.arg)

\* two records of one callsign were stored; the merge changed the first and
\* left the second as it was
C24_Witness ==
    /\ Added
    /\ merge_mode = "SMART_MERGE"
    /\ Len(last.pre) = 2
    /\ SameCallsignAt(last.pre, last.arg) = {1, 2}
    /\ last.pre[1] # last.pre[2]
    /\ records[1] # last.pre[1]
    /\ records[2] = last.pre[2]

\* C27: starting from an empty store, when Keep-All is never the policy in
\* force at a call of add_or_merge_record, no two stored records have
\* callsigns equal ignoring case.
C27_OneRecordPerCallsign ==
    \A i, j \in 1..Len(records) :
        i # j => ~SameIgnoringCase(records[i].callsign, records[j].callsign)

\* a record whose callsign differs only in case from a stored one was
\* submitted to a store of two records, and two records remain
C27_Witness ==
    /\ Added
    /\ merge_mode # "KEEP_ALL"
    /\ Len(last.pre) = 2
    /\ \E i \in SameCallsignAt(last.pre, last.arg) :
           last.pre[i].callsign # last.arg.callsign
    /\ Kept(last.arg, remove_callsign_only)
    /\ Len(records) = 2
    /\ records # last.pre

\* C28: a call of add_or_merge_record leaves the number of stored records the
\* same or raises it by exactly one, under every policy and filter setting;
\* among the operations only reset() makes the store smaller.
C28_StoreNeverShrinks ==
    /\ Added => Len(records) \in {Len(last.pre), Len(last.pre) + 1}
    /\ Len(records) < Len(last.pre) => last.op = "reset"

\* Keep-Most-Recent received a record whose callsign two stored records have:
\* one of them went, the incoming record came
C28_Witness ==
    /\ Added
    /\ merge_mode = "KEEP_RECENT"
    /\ SameCallsignAt(last.pre, last.arg) = {1, 2}
    /\ Len(records) = 2
    /\ records[1] = last.pre[2]
    /\ records[2] = last.arg

\* no two records of recs are value-equal
NoValueEqualPair(recs) ==
    \A i, j \in 1..Len(recs) : i # j => ~ValueEqual(recs[i], recs[j])

\* no two records of recs have the same callsign ignoring case
NoSameCallsignPair(recs) ==
    \A i, j \in 1..Len(recs) :
        i # j => ~SameIgnoringCase(recs[i].callsign, recs[j].callsign)

\* C29 as stated: starting from an empty store, under any interleaving of
\* set_merge_mode among the three policies and add_or_merge_record, the store
\* never holds two value-equal records.
C29_NoValueEqualPair_Original == NoValueEqualPair(records)

\* C29 amended: a Keep-All call adds no value-equal pair to a store that has
\* none, and a Keep-Most-Recent or Smart-Merge call adds none to a store in
\* which no two records have the same callsign; a Keep-Most-Recent or
\* Smart-Merge call on a store holding several records of one callsign can
\* leave two value-equal records.
C29_NoValueEqualPair ==
    Added
    => /\ (merge_mode = "KEEP_ALL" /\ NoValueEqualPair(last.pre))
          => NoValueEqualPair(records)
       /\ (merge_mode # "KEEP_ALL" /\ NoSameCallsignPair(last.pre))
          => NoValueEqualPair(records)

\* after a change of policy to Keep-All, a record value-equal to one of two
\* stored records of one callsign was submitted and not stored
C29_Witness ==
    /\ Added
    /\ merge_mode = "KEEP_ALL"
    /\ Len(last.pre) = 2
    /\ SameCallsignAt(last.pre, last.arg) = {1, 2}
    /\ NoValueEqualPair(last.pre)
    /\ ValueEqual(last.pre[2], last.arg)
    /\ last.pre[2] # last.arg
    /\ records = last.pre

\* the places of the ';' of a line
Separators(s) == {i \in 1..Len(s) : s[i] = ";"}

\* the number of ';'-separated fields of a line
FieldCount(s) == Cardinality(Separators(s)) + 1

\* the ';'-separated field n of a line, the first being field 0
Field(s, n) ==
    LET seps  == Separators(s)
        nth(m) == CHOOSE i \in seps : Cardinality({j \in seps : j < i}) = m - 1
        from  == IF n = 0 THEN 0 ELSE nth(n)
        to    == IF n = Cardinality(seps) THEN Len(s) + 1 ELSE nth(n + 1)
    IN  SubSeq(s, from + 1, to - 1)

\* line k of the file loaded, without the whitespace around it
EdiLine(k) == Trimmed(last.arg[k])

QsoMarkers == {k \in 1..Len(last.arg) : Begins(EdiLine(k), QSORecordsTag)}

RemarksMarkers == {k \in 1..Len(last.arg) : Begins(EdiLine(k), RemarksTag)}

EndLines == {k \in 1..Len(last.arg) : Begins(EdiLine(k), EndTag)}

\* the lines strictly after the first [QSORecords; marker and strictly before
\* the first [END; line
QsoWindow ==
    {k \in 1..Len(last.arg) :
        /\ \E q \in QsoMarkers : q < k
        /\ \A e \in EndLines : k < e}

\* the lines of the QSO section that qualify: not a marker, not empty, ten
\* fields or more
QsoLines ==
    {k \in QsoWindow \ QsoMarkers : EdiLine(k) # <<>> /\ FieldCount(EdiLine(k)) >= 10}

\* the lines of the Remarks section with four fields or more: the nearest
\* marker above is [Remarks], not [QSORecords;
RemarkLines ==
    {k \in 1..Len(last.arg) \ (QsoMarkers \cup RemarksMarkers) :
        /\ \E r \in RemarksMarkers :
               r < k /\ \A q \in QsoMarkers : ~(r < q /\ q < k)
        /\ FieldCount(EdiLine(k)) >= 4}

\* the i-th element of a set of line numbers, in file order
Nth(lines, i) == CHOOSE k \in lines : Cardinality({j \in lines : j <= k}) = i

\* C22 as stated: every non-empty line of the QSO section with at least ten
\* fields is submitted, in file order, as a record with callsign = field[2],
\* exchange = field[8], locator = field[9] and comment = the field[3] of a
\* Remarks line whose field[2] equals that callsign (empty if there is none);
\* other lines are skipped and the load raises no error.
C22_EdiRecords_Original ==
    last.op = "load_edi"
    => /\ last.err = "none"
       /\ Len(last.submitted) = Cardinality(QsoLines)
       /\ \A i \in 1..Len(last.submitted) :
              LET line == EdiLine(Nth(QsoLines, i))
                  told == {k \in RemarkLines : Field(EdiLine(k), 2) = Field(line, 2)}
              IN  /\ last.submitted[i].callsign = Field(line, 2)
                  /\ last.submitted[i].exchange = Field(line, 8)
                  /\ last.submitted[i].locator = Field(line, 9)
                  /\ IF told = {} THEN last.submitted[i].comment = <<>>
                     ELSE \E k \in told :
                              last.submitted[i].comment = Field(EdiLine(k), 3)

\* C22 amended: the callsign, exchange and locator are fields 2, 8 and 9
\* without their surrounding whitespace, and the comment is the trimmed
\* field[3] of the last Remarks line whose trimmed field[2] equals the trimmed
\* callsign (empty if there is none).
C22_EdiRecords ==
    last.op = "load_edi"
    => /\ last.err = "none"
       /\ Len(last.submitted) = Cardinality(QsoLines)
       /\ \A i \in 1..Len(last.submitted) :
              LET line == EdiLine(Nth(QsoLines, i))
                  told == {k \in RemarkLines :
                              Trimmed(Field(EdiLine(k), 2)) = Trimmed(Field(line, 2))}
              IN  /\ last.submitted[i].callsign = Trimmed(Field(line, 2))
                  /\ last.submitted[i].exchange = Trimmed(Field(line, 8))
                  /\ last.submitted[i].locator = Trimmed(Field(line, 9))
                  /\ last.submitted[i].comment =
                         IF told = {} THEN <<>>
                         ELSE Trimmed(Field(EdiLine(
                                  CHOOSE k \in told : \A j \in told : j <= k), 3))

\* a file of a Remarks section and a QSO section: the Remarks line, of four
\* fields, gave the comment of the record; the callsign was written with
\* blanks around it
C22_Witness ==
    /\ last.op = "load_edi"
    /\ Len(last.arg) = 4
    /\ RemarkLines = {2}
    /\ QsoMarkers = {3}
    /\ QsoLines = {4}
    /\ Len(last.submitted) = 1
    /\ last.submitted[1].callsign # Field(EdiLine(4), 2)
    /\ last.submitted[1].comment # <<>>
    /\ records = last.submitted

\* C25: the second pass of load_edi takes records only from lines strictly
\* after the first [QSORecords; marker and strictly before the first line
\* starting with [END; : no line at or after that line, and no line before
\* the marker, gives a record.
C25_EdiWindow ==
    last.op = "load_edi"
    => /\ Len(last.submitted) <= Cardinality(QsoWindow)
       /\ \A i \in 1..Len(last.submitted) :
              \E k \in QsoWindow :
                  /\ FieldCount(EdiLine(k)) >= 10
                  /\ last.submitted[i].callsign = Trimmed(Field(EdiLine(k), 2))
                  /\ last.submitted[i].exchange = Trimmed(Field(EdiLine(k), 8))
                  /\ last.submitted[i].locator = Trimmed(Field(EdiLine(k), 9))
       /\ \A i \in 1..Len(records) :
              \E j \in 1..Len(last.submitted) : records[i] = last.submitted[j]

\* a QSO line before the marker, one in the section and one after the [END;
\* line: only the one in the section gave a record
C25_Witness ==
    /\ last.op = "load_edi"
    /\ Len(last.arg) = 4
    /\ QsoMarkers = {1}
    /\ EndLines = {3}
    /\ FieldCount(EdiLine(2)) >= 10
    /\ FieldCount(EdiLine(4)) >= 10
    /\ EdiLine(4) # EdiLine(2)
    /\ Len(last.submitted) = 1
    /\ Len(records) = 1

\* the places where the text sub stands in s
Occurrences(s, sub) ==
    {p \in 1..(Len(s) - Len(sub) + 1) : SubSeq(s, p, p + Len(sub) - 1) = sub}

\* the places of body where a tag named name begins: '<', the name in any
\* case, then ':' or '>' or the end of the text
TagsNamed(body, name) ==
    {p \in 1..Len(body) :
        /\ body[p] = "<"
        /\ p + Len(name) <= Len(body)
        /\ SameIgnoringCase(SubSeq(body, p + 1, p + Len(name)), name)
        /\ \/ p + Len(name) = Len(body)
           \/ body[p + Len(name) + 1] \in {":", ">"}}

\* the place of the '>' that closes the tag beginning at p, 0 if there is none
ClosingOf(body, p) ==
    LET closes == {i \in (p + 1)..Len(body) : body[i] = ">"}
    IN  IF closes = {} THEN 0 ELSE CHOOSE i \in closes : \A j \in closes : i <= j

\* the length token of the tag that begins at p and closes at close: what
\* stands between the first ':' and the next ':' or the '>'; none when the
\* tag has no ':'
LengthToken(body, p, close) ==
    LET colons == {i \in (p + 1)..(close - 1) : body[i] = ":"}
        first  == CHOOSE i \in colons : \A j \in colons : i <= j
        stops  == {i \in (first + 1)..close : body[i] \in {":", ">"}}
    IN  IF colons = {} THEN [given |-> FALSE, text |-> <<>>]
        ELSE [given |-> TRUE,
              text  |-> SubSeq(body, first + 1,
                               (CHOOSE i \in stops : \A j \in stops : i <= j) - 1)]

DecimalDigits == <<"0", "1", "2", "3", "4", "5", "6", "7", "8", "9">>

\* s is an integer as int() reads one: blanks around it, one sign, digits
\* with single underscores between them
IsInteger(s) ==
    LET t      == Trimmed(s)
        digits == IF t # <<>> /\ t[1] \in {"+", "-"} THEN Tail(t) ELSE t
    IN  /\ digits # <<>>
        /\ \A i \in 1..Len(digits) :
               \/ \E d \in 1..10 : digits[i] = DecimalDigits[d]
               \/ /\ digits[i] = "_"
                  /\ 1 < i /\ i < Len(digits)
                  /\ digits[i - 1] # "_"

RECURSIVE Decimal(_)
\* the number a text of decimal digits stands for
Decimal(s) ==
    IF s = <<>> THEN 0
    ELSE 10 * Decimal(SubSeq(s, 1, Len(s) - 1))
         + (CHOOSE d \in 0..9 : DecimalDigits[d + 1] = s[Len(s)])

\* the value of the first tag named name in body: the LEN characters after
\* its '>', without surrounding whitespace; empty when there is no such tag,
\* no '>', or no length of decimal digits
TagValue(body, name) ==
    LET tags  == TagsNamed(body, name)
        p     == CHOOSE i \in tags : \A j \in tags : i <= j
        close == ClosingOf(body, p)
        token == LengthToken(body, p, close)
    IN  IF tags = {} THEN <<>>
        ELSE IF close = 0 THEN <<>>
        ELSE IF ~token.given THEN <<>>
        ELSE IF token.text = <<>>
                \/ \E i \in 1..Len(token.text) :
                       \A d \in 1..10 : token.text[i] # DecimalDigits[d]
             THEN <<>>
        ELSE Trimmed(SubSeq(body, close + 1,
                            IF close + Decimal(token.text) <= Len(body)
                            THEN close + Decimal(token.text) ELSE Len(body)))

\* C26: extract_adif_field returns the empty string, and raises nothing, when
\* the record body has no tag with the requested name (in any case, written
\* <NAME:LEN[:TYPE]>), when the closing '>' of the tag is missing, and when
\* the length token of the tag is absent or not a valid integer.
C26_ExtractFailsSoft ==
    last.op = "extract_adif_field"
    => LET body  == last.arg[1]
           tags  == TagsNamed(body, last.arg[2])
           p     == CHOOSE i \in tags : \A j \in tags : i <= j
           close == ClosingOf(body, p)
           token == LengthToken(body, p, close)
       IN  /\ last.err = "none"
           /\ tags = {} => last.res = <<>>
           /\ (tags # {} /\ close = 0) => last.res = <<>>
           /\ (tags # {} /\ close # 0 /\ (~token.given \/ ~IsInteger(token.text)))
              => last.res = <<>>

RECURSIVE FileText(_)
\* the text of a file of these lines
FileText(lines) ==
    IF lines = <<>> THEN <<>> ELSE Head(lines) \o FileText(Tail(lines))

\* the text after the first <EOH>, the whole text when there is none
AfterHeader(text) ==
    LET marks == Occurrences(text, <<"<", "E", "O", "H", ">">>)
    IN  IF marks = {} THEN text
        ELSE SubSeq(text, (CHOOSE p \in marks : \A q \in marks : p <= q) + 5, Len(text))

\* the record bodies of a text: what stands before each <EOR>, from the end
\* of the <EOR> before it
AdifBodies(text) ==
    LET ends == Occurrences(text, <<"<", "E", "O", "R", ">">>)
        nth(i) == CHOOSE p \in ends : Cardinality({q \in ends : q <= p}) = i
    IN  [i \in 1..Cardinality(ends) |->
            SubSeq(text, IF i = 1 THEN 1 ELSE nth(i - 1) + 5, nth(i) - 1)]

\* C23: in load_adif every record body ended by <EOR>, in the text after
\* <EOH> (the whole text when there is none), gives one submitted record whose
\* callsign and comment are the values of its <CALL:LEN> and <COMMENT:LEN>
\* tags (read here without surrounding whitespace); a body whose callsign is
\* empty gives no record, and the text after the last <EOR> gives none.
C23_AdifRecords ==
    last.op = "load_adif"
    => LET bodies == AdifBodies(AfterHeader(FileText(last.arg)))
           kept   == SelectSeq(bodies,
                               LAMBDA b : TagValue(b, <<"C", "A", "L", "L">>) # <<>>)
       IN  /\ last.err = "none"
           /\ Len(last.submitted) = Len(kept)
           /\ \A i \in 1..Len(kept) :
                  /\ last.submitted[i].callsign =
                         TagValue(kept[i], <<"C", "A", "L", "L">>)
                  /\ last.submitted[i].comment =
                         TagValue(kept[i], <<"C", "O", "M", "M", "E", "N", "T">>)

=============================================================================
